---- MODULE Spec2Model ----
(***************************************************************************)
(* Model of ship.py (rtulke/ship): the update pipeline of                  *)
(* CompleteApplicationUpdater.apply_updates_complete and the collaborators *)
(* it sequences.  One run of apply_updates_complete is one behaviour; pc   *)
(* is the position of the run inside the function body.                    *)
(*                                                                         *)
(* Faults (Python exceptions) are modelled where the code calls a          *)
(* collaborator outside any try/except of its own: the manifest load, the  *)
(* gates and checks, the hook lists, the snapshot transport (rsync with    *)
(* check=True) and the test runner.  run_migrations, _process_files_       *)
(* advanced and run_cleanup catch every exception themselves and only      *)
(* return a boolean.                                                       *)
(***************************************************************************)
EXTENDS Integers, Sequences, FiniteSets

VARIABLES
    pc,           \* position inside apply_updates_complete
    manifest,     \* the local `manifest` (Unbound until line 1007/1009 assigns it)
    trace,        \* stages whose body was executed, in order, with their result
    snapshot,     \* TRUE once create_backup has returned (backup_path is bound)
    snapshots,    \* number of snapshots created in this run
    restoreCalls, \* number of invocations of restore_backup
    restored,     \* TRUE once restore_backup has returned True
    scriptsRun,   \* migration scripts executed
    filesWritten, \* source files processed into the installation
    notified,     \* notification lists sent, in order
    fault,        \* the call that raised the exception caught at line 1111
    result,       \* what apply_updates_complete gave back to its caller
    \* ConditionalProcessor.evaluate_conditionals
    conditionals, \* the rule list under evaluation
    ci,           \* index of the rule the loop is at
    evaluated,    \* indices of the rules whose condition was evaluated, in order
    cond_ret,     \* the returned (should_continue, action_taken, manual_steps)
    \* ConditionalProcessor._evaluate_version_condition
    current_version, \* what _get_current_version gave
    condition,       \* the condition's operator and version literal
    ver_ret,         \* the returned truth value
    \* AdvancedConfigMerger
    old_section,  \* the deployed mapping
    new_section,  \* the mapping of the update
    preserve_keys, \* merge_smart's preserve_keys
    merged,       \* the returned mapping
    old_after,    \* the object passed as old, after the merge returned
    new_after,    \* the object passed as new, after the merge returned
    \* two runs of apply_updates_complete on one installation
    run_pc,       \* position of each run
    app_tree,     \* the installation: who wrote each file last
    backup_store, \* the snapshot directory: the copy of the tree it holds
    run_written,  \* per run, the files its file-sync has written so far
    \* merging one configuration file into the installation
    target_file,  \* what the target path holds
    source_file,  \* the document of the update
    merge_call,   \* which merge was called, with which strategy configuration
                  \* and which old_config it loaded
    file_ok,      \* the boolean the merge returned
    write_pc,     \* position inside `with open(target_file, 'wb')`
    to_write,     \* the merged document being written
    \* StagedRolloutManager.should_update_in_stage
    rollout_config, \* the manifest's rollout mapping
    process_hash,   \* hash(self.system_id) % 100 in the running process
    decision,       \* what the latest call returned
    earlier,        \* what the call before it returned
    \* MigrationRunner.run_migrations
    migrations,        \* the manifest's migrations: version -> scripts
    installed_version, \* what _get_current_version gives
    target_version,    \* the manifest's version
    scripts_executed,  \* the scripts run, in order
    migrations_ok,     \* the boolean run_migrations returned
    \* CompleteUpdateManifest.get_file_action / get_file_config
    files,        \* the manifest's files: pattern -> configuration, in order
    file_path,    \* the path looked up
    file_action,  \* what get_file_action returned
    file_config,  \* what get_file_config returned
    \* a stage waiting on the external commands it runs
    stage_call,   \* the call site, its tasks and the rollback policy
    task_i,       \* index of the task (hook, script, test) the loop is at
    attempt,      \* number of the attempt of that task
    running,      \* number of child processes that have not ended
    attempts_log, \* the attempts made, in order, with what the caller saw
    failed_tests, \* run_tests' failed_tests
    stage_ret,    \* what the stage gave back, and what the pipeline does next
    \* the installation tree during one run
    tree,             \* what each path of app_dir holds
    backup_copy,      \* what each path of backup_path holds
    tree_at_snapshot, \* the tree at the moment create_backup ran
    tree_pc,          \* position of the run
    last_step,        \* the latest step; a restore carries the tree it started from
    \* one call of _evaluate_condition
    cond_text,        \* the condition string, by what the dispatch reads in it
    branch,           \* the branch of the if/elif chain that was taken
    calls,            \* the primitives the call has executed
    disp_ret          \* what the call returned

\* the variables of one run of the pipeline
pvars == <<pc, manifest, trace, snapshot, snapshots, restoreCalls, restored,
           scriptsRun, filesWritten, notified, fault, result>>

condVars == <<conditionals, ci, evaluated, cond_ret>>

verVars == <<current_version, condition, ver_ret>>

mergeVars == <<old_section, new_section, preserve_keys, merged,
               old_after, new_after>>

runVars == <<run_pc, app_tree, backup_store, run_written>>

fileVars == <<target_file, source_file, merge_call, file_ok, write_pc,
              to_write>>

\* the components added to the five above
rolloutVars == <<rollout_config, process_hash, decision, earlier>>

migVars == <<migrations, installed_version, target_version, scripts_executed,
             migrations_ok>>

ruleVars == <<files, file_path, file_action, file_config>>

cmdVars == <<stage_call, task_i, attempt, running, attempts_log,
             failed_tests, stage_ret>>

treeVars == <<tree, backup_copy, tree_at_snapshot, tree_pc, last_step>>

dispVars == <<cond_text, branch, calls, disp_ret>>

laterVars == <<cmdVars, treeVars, dispVars>>

extraVars == <<fileVars, rolloutVars, migVars, ruleVars, laterVars>>

vars == <<pvars, condVars, verVars, mergeVars, runVars, extraVars>>

\* the value of a variable that the specification at hand does not use
Idle == "idle"

CondIdle ==
    conditionals = Idle /\ ci = Idle /\ evaluated = Idle /\ cond_ret = Idle

VerIdle == current_version = Idle /\ condition = Idle /\ ver_ret = Idle

MergeIdle ==
    /\ old_section = Idle /\ new_section = Idle
    /\ preserve_keys = Idle /\ merged = Idle
    /\ old_after = Idle /\ new_after = Idle

RunsIdle ==
    run_pc = Idle /\ app_tree = Idle /\ backup_store = Idle /\ run_written = Idle

FileIdle ==
    /\ target_file = Idle /\ source_file = Idle /\ merge_call = Idle
    /\ file_ok = Idle /\ write_pc = Idle /\ to_write = Idle

RolloutIdle ==
    /\ rollout_config = Idle /\ process_hash = Idle
    /\ decision = Idle /\ earlier = Idle

MigIdle ==
    /\ migrations = Idle /\ installed_version = Idle /\ target_version = Idle
    /\ scripts_executed = Idle /\ migrations_ok = Idle

RuleIdle ==
    /\ files = Idle /\ file_path = Idle
    /\ file_action = Idle /\ file_config = Idle

CmdIdle ==
    /\ stage_call = Idle /\ task_i = Idle /\ attempt = Idle
    /\ running = Idle /\ attempts_log = Idle /\ failed_tests = Idle
    /\ stage_ret = Idle

TreeIdle ==
    /\ tree = Idle /\ backup_copy = Idle /\ tree_at_snapshot = Idle
    /\ tree_pc = Idle /\ last_step = Idle

DispIdle ==
    cond_text = Idle /\ branch = Idle /\ calls = Idle /\ disp_ret = Idle

LaterIdle == CmdIdle /\ TreeIdle /\ DispIdle

ExtraIdle == FileIdle /\ RolloutIdle /\ MigIdle /\ RuleIdle /\ LaterIdle

\* a step of the pipeline leaves the other components alone
PipelineOnly == UNCHANGED <<condVars, verVars, mergeVars, runVars, extraVars>>

-----------------------------------------------------------------------------
(* Bounds of the model *)

\* most migration scripts a manifest declares
MaxScripts == 2

\* most files in the source tree
MaxFiles == 2

-----------------------------------------------------------------------------
(* The manifest *)

Triggers == {"service_start_fail", "health_check_fail"}

\* the value of `manifest` before it is assigned
Unbound == [bound |-> FALSE]

\* CompleteUpdateManifest.__init__: every section defaults to empty
ManifestOf(ro, co, rq, se, pre, post, mig, te, cl, ons, onf, auto) ==
    [bound |-> TRUE,
     rollout |-> ro, conditionals |-> co, requirements |-> rq, security |-> se,
     pre_update |-> pre, post_update |-> post, migrations |-> mig,
     post_update_tests |-> te, cleanup |-> cl,
     on_success |-> ons, on_failure |-> onf,
     auto_rollback_on |-> auto]

\* the manifest used when update-manifest.yaml is absent: {'version': 'unknown'}
DefaultManifest ==
    ManifestOf(FALSE, FALSE, FALSE, FALSE, FALSE, FALSE, 0, FALSE, FALSE,
               FALSE, FALSE, {})

\* the manifests a file can hold: each section present (truthy) or not
Manifests ==
    {ManifestOf(ro, co, rq, se, pre, post, mig, te, cl, ons, onf, auto) :
        ro \in BOOLEAN, co \in BOOLEAN, rq \in BOOLEAN, se \in BOOLEAN,
        pre \in BOOLEAN, post \in BOOLEAN, mig \in 0..MaxScripts,
        te \in BOOLEAN, cl \in BOOLEAN, ons \in BOOLEAN, onf \in BOOLEAN,
        auto \in SUBSET Triggers}

\* should_auto_rollback with the trigger kind ignored: any listed trigger
\* enables the rollback
should_auto_rollback_any(m, trigger) == m.auto_rollback_on # {}

\* CompleteUpdateManifest.should_auto_rollback
should_auto_rollback(m, trigger) == trigger \in m.auto_rollback_on

-----------------------------------------------------------------------------
(* Results *)

NoResult == [kind |-> "none", ok |-> FALSE, msg |-> ""]

\* `return ok, msg`
Returned(ok, msg) == [kind |-> "returned", ok |-> ok, msg |-> msg]

\* an exception leaving apply_updates_complete
Escaped(msg) == [kind |-> "raised", ok |-> FALSE, msg |-> msg]

Ran(stage, res) == [stage |-> stage, res |-> res]

PipelineStart ==
    /\ pc = "load"
    /\ manifest = Unbound
    /\ trace = <<>>
    /\ snapshot = FALSE
    /\ snapshots = 0
    /\ restoreCalls = 0
    /\ restored = FALSE
    /\ scriptsRun = 0
    /\ filesWritten = 0
    /\ notified = <<>>
    /\ fault = "none"
    /\ result = NoResult

Init ==
    PipelineStart /\ CondIdle /\ VerIdle /\ MergeIdle /\ RunsIdle /\ ExtraIdle

-----------------------------------------------------------------------------
(* Steps shared by the stages *)

\* the stage falls through to the next statement of the try block
Continue(next) ==
    /\ pc' = next
    /\ UNCHANGED <<fault, result>>

\* `return ok, msg` from inside the try block
Return(ok, msg) ==
    /\ pc' = "done"
    /\ result' = Returned(ok, msg)
    /\ UNCHANGED fault

\* an exception raised in `where`: control goes to `except Exception as e`
Raise(where) ==
    /\ pc' = "handler"
    /\ fault' = where
    /\ UNCHANGED result

\* `backup_manager.restore_backup(backup_path); return False, msg`
\* restore_backup runs rsync with check=True: it returns True or raises
RestoreAndReturn(msg) ==
    /\ restoreCalls' = restoreCalls + 1
    /\ \E r \in {"ok", "raise"} :
          IF r = "ok"
          THEN restored' = TRUE /\ Return(FALSE, msg)
          ELSE restored' = restored /\ Raise("restore")

-----------------------------------------------------------------------------
(* 1. Load manifest (lines 1003-1011) *)

LoadManifest ==
    /\ PipelineOnly
    /\ pc = "load"
    /\ \E file \in {"absent", "valid", "invalid"} :
          CASE file = "absent" ->
                 /\ manifest' = DefaultManifest
                 /\ Continue("rollout")
            [] file = "valid" ->
                 /\ manifest' \in Manifests
                 /\ Continue("rollout")
            [] file = "invalid" ->
                 \* load_from_file raises UpdaterError; `manifest` stays unassigned
                 /\ manifest' = manifest
                 /\ Raise("load")
    /\ UNCHANGED <<trace, snapshot, snapshots, restoreCalls, restored,
                   scriptsRun, filesWritten, notified>>

(* 2. Check staged rollout (lines 1013-1019) *)

RolloutGate ==
    /\ PipelineOnly
    /\ pc = "rollout"
    /\ IF ~manifest.rollout
       THEN trace' = trace /\ Continue("conditional")
       ELSE \E r \in {"ok", "not_selected", "raise"} :
              /\ trace' = Append(trace, Ran("rollout", r))
              /\ CASE r = "ok" -> Continue("conditional")
                   [] r = "not_selected" ->
                        Return(TRUE, "Skipped due to staged rollout")
                   [] r = "raise" -> Raise("rollout")
    /\ UNCHANGED <<manifest, snapshot, snapshots, restoreCalls, restored,
                   scriptsRun, filesWritten, notified>>

(* 3. Evaluate conditionals (lines 1021-1032) *)

ConditionalGate ==
    /\ PipelineOnly
    /\ pc = "conditional"
    /\ IF ~manifest.conditionals
       THEN trace' = trace /\ Continue("requirements")
       ELSE \E r \in {"ok", "skip_update", "manual", "raise"} :
              /\ trace' = Append(trace, Ran("conditional", r))
              /\ CASE r = "ok" -> Continue("requirements")
                   [] r = "skip_update" -> Return(FALSE, "Update skipped")
                   [] r = "manual" ->
                        Return(FALSE, "Manual intervention required")
                   [] r = "raise" -> Raise("conditional")
    /\ UNCHANGED <<manifest, snapshot, snapshots, restoreCalls, restored,
                   scriptsRun, filesWritten, notified>>

(* 4. Check requirements (lines 1034-1040) *)

RequirementsCheck ==
    /\ PipelineOnly
    /\ pc = "requirements"
    /\ IF ~manifest.requirements
       THEN trace' = trace /\ Continue("security")
       ELSE \E r \in {"ok", "fail", "raise"} :
              /\ trace' = Append(trace, Ran("requirements", r))
              /\ CASE r = "ok" -> Continue("security")
                   [] r = "fail" -> Return(FALSE, "Requirements not met")
                   [] r = "raise" -> Raise("requirements")
    /\ UNCHANGED <<manifest, snapshot, snapshots, restoreCalls, restored,
                   scriptsRun, filesWritten, notified>>

(* 5. Security validation (lines 1042-1048) *)

SecurityValidate ==
    /\ PipelineOnly
    /\ pc = "security"
    /\ IF ~manifest.security
       THEN trace' = trace /\ Continue("prehooks")
       ELSE \E r \in {"ok", "checksum_fail", "file_fail", "raise"} :
              /\ trace' = Append(trace, Ran("security", r))
              /\ CASE r = "ok" -> Continue("prehooks")
                   [] r = "checksum_fail" ->
                        Return(FALSE, "Checksum verification failed")
                   [] r = "file_fail" ->
                        Return(FALSE, "Security validation failed")
                   [] r = "raise" -> Raise("security")
    /\ UNCHANGED <<manifest, snapshot, snapshots, restoreCalls, restored,
                   scriptsRun, filesWritten, notified>>

(* 6. Run pre-update hooks (lines 1050-1053) *)

\* PreHooks with a failed hook only logged: the run goes on to the snapshot
PreHooksIgnoringFailure ==
    /\ PipelineOnly
    /\ pc = "prehooks"
    /\ IF ~manifest.pre_update
       THEN trace' = trace /\ Continue("snapshot")
       ELSE \E r \in {"ok", "fail", "raise"} :
              /\ trace' = Append(trace, Ran("prehooks", r))
              /\ CASE r = "ok" -> Continue("snapshot")
                   [] r = "fail" -> Continue("snapshot")
                   [] r = "raise" -> Raise("prehooks")
    /\ UNCHANGED <<manifest, snapshot, snapshots, restoreCalls, restored,
                   scriptsRun, filesWritten, notified>>

\* PreHooks with the failure handled like a migration failure: a restore is
\* invoked although no snapshot was taken
PreHooksRollingBack ==
    /\ PipelineOnly
    /\ pc = "prehooks"
    /\ IF ~manifest.pre_update
       THEN /\ UNCHANGED <<trace, restoreCalls, restored>>
            /\ Continue("snapshot")
       ELSE \E r \in {"ok", "fail", "raise"} :
              /\ trace' = Append(trace, Ran("prehooks", r))
              /\ CASE r = "ok" ->
                        UNCHANGED <<restoreCalls, restored>> /\ Continue("snapshot")
                   [] r = "fail" -> RestoreAndReturn("Pre-update hooks failed")
                   [] r = "raise" ->
                        UNCHANGED <<restoreCalls, restored>> /\ Raise("prehooks")
    /\ UNCHANGED <<manifest, snapshot, snapshots, scriptsRun, filesWritten,
                   notified>>

PreHooks ==
    /\ PipelineOnly
    /\ pc = "prehooks"
    /\ IF ~manifest.pre_update
       THEN trace' = trace /\ Continue("snapshot")
       ELSE \E r \in {"ok", "fail", "raise"} :
              /\ trace' = Append(trace, Ran("prehooks", r))
              /\ CASE r = "ok" -> Continue("snapshot")
                   [] r = "fail" -> Return(FALSE, "Pre-update hooks failed")
                   [] r = "raise" -> Raise("prehooks")
    /\ UNCHANGED <<manifest, snapshot, snapshots, restoreCalls, restored,
                   scriptsRun, filesWritten, notified>>

(* 7. Create backup (lines 1055-1057) *)

\* CreateBackup with the snapshot taken only when the manifest declares
\* migrations
CreateBackupWhenMigrating ==
    /\ PipelineOnly
    /\ pc = "snapshot"
    /\ IF manifest.migrations = 0
       THEN /\ UNCHANGED <<trace, snapshot, snapshots>>
            /\ Continue("migrations")
       ELSE \E r \in {"ok", "raise"} :
              /\ trace' = Append(trace, Ran("snapshot", r))
              /\ IF r = "ok"
                 THEN /\ snapshot' = TRUE
                      /\ snapshots' = snapshots + 1
                      /\ Continue("migrations")
                 ELSE /\ UNCHANGED <<snapshot, snapshots>>
                      /\ Raise("snapshot")
    /\ UNCHANGED <<manifest, restoreCalls, restored, scriptsRun, filesWritten,
                   notified>>

\* _get_backup_manager and create_backup (rsync, check=True): the snapshot
\* exists once create_backup has returned; a failing transport raises
CreateBackup ==
    /\ PipelineOnly
    /\ pc = "snapshot"
    /\ \E r \in {"ok", "raise"} :
          /\ trace' = Append(trace, Ran("snapshot", r))
          /\ IF r = "ok"
             THEN /\ snapshot' = TRUE
                  /\ snapshots' = snapshots + 1
                  /\ Continue("migrations")
             ELSE /\ UNCHANGED <<snapshot, snapshots>>
                  /\ Raise("snapshot")
    /\ UNCHANGED <<manifest, restoreCalls, restored, scriptsRun, filesWritten,
                   notified>>

(* 8. Run migrations (lines 1059-1066) *)

\* run_migrations executes `ran` scripts and returns a boolean; it returns
\* False when a script fails or when it catches an exception of its own
Migrations ==
    /\ PipelineOnly
    /\ pc = "migrations"
    /\ IF manifest.migrations = 0
       THEN /\ UNCHANGED <<trace, scriptsRun, restoreCalls, restored>>
            /\ Continue("filesync")
       ELSE \E ran \in 0..manifest.migrations, ok \in BOOLEAN :
              /\ scriptsRun' = ran
              /\ trace' = Append(trace,
                                 Ran("migrations", IF ok THEN "ok" ELSE "fail"))
              /\ IF ok
                 THEN UNCHANGED <<restoreCalls, restored>> /\ Continue("filesync")
                 ELSE RestoreAndReturn("Migration scripts failed")
    /\ UNCHANGED <<manifest, snapshot, snapshots, filesWritten, notified>>

(* 9. Apply file changes (lines 1068-1072, 1142-1158) *)

\* FileSync with the rollback gated by the policy, as for hooks and tests
FileSyncPolicyGated ==
    /\ PipelineOnly
    /\ pc = "filesync"
    /\ \E written \in 0..MaxFiles, ok \in BOOLEAN :
          /\ filesWritten' = written
          /\ trace' = Append(trace, Ran("filesync", IF ok THEN "ok" ELSE "fail"))
          /\ IF ok
             THEN UNCHANGED <<restoreCalls, restored>> /\ Continue("posthooks")
             ELSE IF manifest.auto_rollback_on # {}
                  THEN RestoreAndReturn("File processing failed")
                  ELSE /\ UNCHANGED <<restoreCalls, restored>>
                       /\ Return(FALSE, "File processing failed")
    /\ UNCHANGED <<manifest, snapshot, snapshots, scriptsRun, notified>>

\* _process_files_advanced processes the files one after the other and stops
\* at the first that fails; `written` files were processed before that
FileSync ==
    /\ PipelineOnly
    /\ pc = "filesync"
    /\ \E written \in 0..MaxFiles, ok \in BOOLEAN :
          /\ filesWritten' = written
          /\ trace' = Append(trace, Ran("filesync", IF ok THEN "ok" ELSE "fail"))
          /\ IF ok
             THEN UNCHANGED <<restoreCalls, restored>> /\ Continue("posthooks")
             ELSE RestoreAndReturn("File processing failed")
    /\ UNCHANGED <<manifest, snapshot, snapshots, scriptsRun, notified>>

(* 10. Run post-update hooks (lines 1074-1080) *)

\* PostHooks with a failure the policy does not list ending the run: the
\* post-update tests are never reached
PostHooksStopping ==
    /\ PipelineOnly
    /\ pc = "posthooks"
    /\ IF ~manifest.post_update
       THEN /\ UNCHANGED <<trace, restoreCalls, restored>>
            /\ Continue("posttests")
       ELSE \E r \in {"ok", "fail", "raise"} :
              /\ trace' = Append(trace, Ran("posthooks", r))
              /\ CASE r = "ok" ->
                        UNCHANGED <<restoreCalls, restored>> /\ Continue("posttests")
                   [] r = "fail" ->
                        IF should_auto_rollback(manifest, "service_start_fail")
                        THEN RestoreAndReturn("Post-update hooks failed, rolled back")
                        ELSE /\ UNCHANGED <<restoreCalls, restored>>
                             /\ Return(FALSE, "Post-update hooks failed")
                   [] r = "raise" ->
                        UNCHANGED <<restoreCalls, restored>> /\ Raise("posthooks")
    /\ UNCHANGED <<manifest, snapshot, snapshots, scriptsRun, filesWritten,
                   notified>>

PostHooks ==
    /\ PipelineOnly
    /\ pc = "posthooks"
    /\ IF ~manifest.post_update
       THEN /\ UNCHANGED <<trace, restoreCalls, restored>>
            /\ Continue("posttests")
       ELSE \E r \in {"ok", "fail", "raise"} :
              /\ trace' = Append(trace, Ran("posthooks", r))
              /\ CASE r = "ok" ->
                        UNCHANGED <<restoreCalls, restored>> /\ Continue("posttests")
                   [] r = "fail" ->
                        IF should_auto_rollback(manifest, "service_start_fail")
                        THEN RestoreAndReturn("Post-update hooks failed, rolled back")
                        ELSE /\ UNCHANGED <<restoreCalls, restored>>
                             /\ Continue("posttests")
                   [] r = "raise" ->
                        UNCHANGED <<restoreCalls, restored>> /\ Raise("posthooks")
    /\ UNCHANGED <<manifest, snapshot, snapshots, scriptsRun, filesWritten,
                   notified>>

(* 11. Run post-update tests (lines 1082-1089) *)

\* PostTests with a failed, not rolled back test run sending the pipeline back
\* to the post-update hooks
PostTestsRetryingHooks ==
    /\ PipelineOnly
    /\ pc = "posttests"
    /\ IF ~manifest.post_update_tests
       THEN /\ UNCHANGED <<trace, restoreCalls, restored>>
            /\ Continue("cleanup")
       ELSE \E r \in {"ok", "fail", "raise"} :
              /\ trace' = Append(trace, Ran("posttests", r))
              /\ CASE r = "ok" ->
                        UNCHANGED <<restoreCalls, restored>> /\ Continue("cleanup")
                   [] r = "fail" ->
                        IF should_auto_rollback(manifest, "health_check_fail")
                        THEN RestoreAndReturn("Health checks failed, rolled back")
                        ELSE /\ UNCHANGED <<restoreCalls, restored>>
                             /\ Continue(IF \A i \in 1..Len(trace) :
                                               trace[i].stage # "posttests"
                                         THEN "posthooks" ELSE "cleanup")
                   [] r = "raise" ->
                        UNCHANGED <<restoreCalls, restored>> /\ Raise("posttests")
    /\ UNCHANGED <<manifest, snapshot, snapshots, scriptsRun, filesWritten,
                   notified>>

PostTests ==
    /\ PipelineOnly
    /\ pc = "posttests"
    /\ IF ~manifest.post_update_tests
       THEN /\ UNCHANGED <<trace, restoreCalls, restored>>
            /\ Continue("cleanup")
       ELSE \E r \in {"ok", "fail", "raise"} :
              /\ trace' = Append(trace, Ran("posttests", r))
              /\ CASE r = "ok" ->
                        UNCHANGED <<restoreCalls, restored>> /\ Continue("cleanup")
                   [] r = "fail" ->
                        IF should_auto_rollback(manifest, "health_check_fail")
                        THEN RestoreAndReturn("Health checks failed, rolled back")
                        ELSE /\ UNCHANGED <<restoreCalls, restored>>
                             /\ Continue("cleanup")
                   [] r = "raise" ->
                        UNCHANGED <<restoreCalls, restored>> /\ Raise("posttests")
    /\ UNCHANGED <<manifest, snapshot, snapshots, scriptsRun, filesWritten,
                   notified>>

(* 12. Run cleanup (lines 1091-1095) *)

\* the stage as it would be if the caller looked at run_cleanup's result
CleanupFatal ==
    /\ PipelineOnly
    /\ pc = "cleanup"
    /\ IF ~manifest.cleanup
       THEN trace' = trace /\ Continue("notify")
       ELSE \E r \in {"ok", "fail"} :
              /\ trace' = Append(trace, Ran("cleanup", r))
              /\ IF r = "ok" THEN Continue("notify")
                 ELSE Return(FALSE, "Cleanup failed")
    /\ UNCHANGED <<manifest, snapshot, snapshots, restoreCalls, restored,
                   scriptsRun, filesWritten, notified>>

\* run_cleanup returns a boolean that the caller discards
Cleanup ==
    /\ PipelineOnly
    /\ pc = "cleanup"
    /\ IF ~manifest.cleanup
       THEN trace' = trace
       ELSE \E r \in {"ok", "fail"} : trace' = Append(trace, Ran("cleanup", r))
    /\ Continue("notify")
    /\ UNCHANGED <<manifest, snapshot, snapshots, restoreCalls, restored,
                   scriptsRun, filesWritten, notified>>

(* 13. Send success notifications and return (lines 1097-1109) *)

NotifySuccess ==
    /\ PipelineOnly
    /\ pc = "notify"
    /\ IF manifest.on_success
       THEN /\ notified' = Append(notified, "on_success")
            /\ trace' = Append(trace, Ran("notify", "ok"))
       ELSE UNCHANGED <<notified, trace>>
    /\ Return(TRUE, "version")
    /\ UNCHANGED <<manifest, snapshot, snapshots, restoreCalls, restored,
                   scriptsRun, filesWritten>>

(* except Exception as e (lines 1111-1126) *)

\* `hasattr(manifest, ...)` reads the local `manifest`: when the load raised,
\* the name is unassigned and the read raises UnboundLocalError, which leaves
\* apply_updates_complete
ExceptHandler ==
    /\ PipelineOnly
    /\ pc = "handler"
    /\ pc' = "done"
    /\ IF ~manifest.bound
       THEN /\ result' = Escaped("UnboundLocalError")
            /\ UNCHANGED <<notified, trace>>
       ELSE /\ result' = Returned(FALSE, "Update failed")
            /\ IF manifest.on_failure
               THEN /\ notified' = Append(notified, "on_failure")
                    /\ trace' = Append(trace, Ran("notify", "ok"))
               ELSE UNCHANGED <<notified, trace>>
    /\ UNCHANGED <<manifest, snapshot, snapshots, restoreCalls, restored,
                   scriptsRun, filesWritten, fault>>

-----------------------------------------------------------------------------
(* ConditionalProcessor (lines 224-373) *)

MaxRules == 2

\* the condition strings, by the branch of _evaluate_condition they take and
\* by what _extract_string_from_function finds in them: "quoted" when the
\* pattern func\(['"]([^'"]+)['"] matches, "missing" when it does not
\* (file_exists(), file_exists(/tmp/lock), command(), ...); the two kinds
\* are told apart for the primitives that hand the string to the system
Conditions ==
    [form : {"file_exists", "command"}, arg : {"quoted", "missing"}]
    \cup [form : {"service_running", "current_version", "env_var", "unknown"},
          arg : {"quoted"}]

\* the actions a rule can name; any other value has no branch at 243-249
RuleActions == {"continue", "skip_update", "warn", "require_manual_intervention"}

\* what the probed environment answers: the probe holds, does not hold, or
\* the probe itself raises
Answers == {"yes", "no", "error"}

\* rule number i of a list: its message and manual_steps are its own
RuleAt(i, c, a) ==
    [condition |-> c, action |-> a, message |-> i, manual_steps |-> <<i>>]

RuleLists ==
    UNION {{[i \in 1..n |-> RuleAt(i, cs[i], as[i])] :
               cs \in [1..n -> Conditions], as \in [1..n -> RuleActions]} :
           n \in 0..MaxRules}

\* _extract_string_from_function (288-292): "" when the pattern does not match
ExtractString(c) == IF c.arg = "quoted" THEN "path" ELSE ""

\* _evaluate_condition (253-286); every exception is caught at 284-286
EvaluateCondition(c, ans) ==
    IF c.form = "file_exists"
    THEN \* Path("") is the current directory, which exists
         IF ExtractString(c) = "" THEN TRUE
         ELSE IF ans = "error" THEN FALSE ELSE ans = "yes"
    ELSE IF c.form = "service_running"
    THEN \* systemctl is-active: exit 0 only for an active unit
         ExtractString(c) # "" /\ ans = "yes"
    ELSE IF c.form = "current_version"
    THEN \* _evaluate_version_condition catches its own exceptions
         ans = "yes"
    ELSE IF c.form = "env_var"
    THEN ans = "yes"
    ELSE IF c.form = "command"
    THEN \* the shell runs the empty command line with exit status 0
         IF ExtractString(c) = "" THEN ans # "error"
         ELSE ans = "yes"
    ELSE FALSE

NotReturned == [kind |-> "none"]

\* return should_continue, action_taken, manual_steps
CondReturn(ok, prefix, message, steps) ==
    [kind |-> "returned", should_continue |-> ok, prefix |-> prefix,
     message |-> message, manual_steps |-> steps]

\* a step of evaluate_conditionals leaves the other components alone
CondOnly == UNCHANGED <<pvars, verVars, mergeVars, runVars, extraVars>>

PipelineIdle ==
    /\ pc = Idle /\ manifest = Idle /\ trace = Idle /\ snapshot = Idle
    /\ snapshots = Idle /\ restoreCalls = Idle /\ restored = Idle
    /\ scriptsRun = Idle /\ filesWritten = Idle /\ notified = Idle
    /\ fault = Idle /\ result = Idle

CondInit ==
    /\ conditionals \in RuleLists
    /\ ci = 1
    /\ evaluated = <<>>
    /\ cond_ret = NotReturned
    /\ PipelineIdle /\ VerIdle /\ MergeIdle /\ RunsIdle /\ ExtraIdle

\* the loop as it would be if every condition were evaluated before any
\* action is taken
EvaluateRuleEagerly ==
    /\ CondOnly
    /\ cond_ret = NotReturned
    /\ ci <= Len(conditionals)
    /\ \E ans \in Answers :
         LET rule == conditionals[ci]
             value == EvaluateCondition(rule.condition, ans)
             stops == \E j \in 1..Len(evaluated) :
                        /\ evaluated[j].value
                        /\ conditionals[j].action \in
                              {"skip_update", "require_manual_intervention"}
             first == CHOOSE j \in 1..ci :
                        /\ IF j = ci THEN value ELSE evaluated[j].value
                        /\ conditionals[j].action \in
                              {"skip_update", "require_manual_intervention"}
                        /\ \A k \in 1..(j - 1) :
                              ~(evaluated[k].value /\ conditionals[k].action \in
                                  {"skip_update", "require_manual_intervention"})
             hit == stops \/ (value /\ rule.action \in
                                {"skip_update", "require_manual_intervention"})
         IN /\ evaluated' = Append(evaluated,
                                   [rule |-> ci, ans |-> ans, value |-> value])
            /\ IF ci = Len(conditionals) /\ hit
               THEN /\ cond_ret' =
                         IF conditionals[first].action = "skip_update"
                         THEN CondReturn(FALSE, "Update skipped",
                                         conditionals[first].message, <<>>)
                         ELSE CondReturn(FALSE, "Manual intervention required",
                                         conditionals[first].message,
                                         conditionals[first].manual_steps)
                    /\ ci' = first
               ELSE /\ ci' = ci + 1
                    /\ cond_ret' = cond_ret
    /\ UNCHANGED conditionals

\* the loop as it would be if a warning ended the evaluation
EvaluateRuleWarnStops ==
    /\ CondOnly
    /\ cond_ret = NotReturned
    /\ ci <= Len(conditionals)
    /\ \E ans \in Answers :
         LET rule == conditionals[ci]
             value == EvaluateCondition(rule.condition, ans)
         IN /\ evaluated' = Append(evaluated,
                                   [rule |-> ci, ans |-> ans, value |-> value])
            /\ IF value /\ rule.action \in {"skip_update", "warn"}
               THEN /\ cond_ret' = CondReturn(FALSE, "Update skipped",
                                              rule.message, <<>>)
                    /\ ci' = ci
               ELSE IF value /\ rule.action = "require_manual_intervention"
               THEN /\ cond_ret' = CondReturn(FALSE,
                                              "Manual intervention required",
                                              rule.message, rule.manual_steps)
                    /\ ci' = ci
               ELSE /\ ci' = ci + 1
                    /\ cond_ret' = cond_ret
    /\ UNCHANGED conditionals

\* one iteration of `for conditional in conditionals` (235-249)
EvaluateRule ==
    /\ CondOnly
    /\ cond_ret = NotReturned
    /\ ci <= Len(conditionals)
    /\ \E ans \in Answers :
         LET rule == conditionals[ci]
             value == EvaluateCondition(rule.condition, ans)
         IN /\ evaluated' = Append(evaluated,
                                   [rule |-> ci, ans |-> ans, value |-> value])
            /\ IF value /\ rule.action = "skip_update"
               THEN /\ cond_ret' = CondReturn(FALSE, "Update skipped",
                                              rule.message, <<>>)
                    /\ ci' = ci
               ELSE IF value /\ rule.action = "require_manual_intervention"
               THEN /\ cond_ret' = CondReturn(FALSE,
                                              "Manual intervention required",
                                              rule.message, rule.manual_steps)
                    /\ ci' = ci
               ELSE \* false condition, continue, warn: next rule
                    /\ ci' = ci + 1
                    /\ cond_ret' = cond_ret
    /\ UNCHANGED conditionals

\* `return True, "", []` after the loop (251)
ReturnProceed ==
    /\ CondOnly
    /\ cond_ret = NotReturned
    /\ ci > Len(conditionals)
    /\ cond_ret' = CondReturn(TRUE, "", "", <<>>)
    /\ UNCHANGED <<conditionals, ci, evaluated>>

CondNext ==
    \/ EvaluateRule
    \/ ReturnProceed

SpecCond == CondInit /\ [][CondNext]_vars

-----------------------------------------------------------------------------
(* Version conditions (lines 304-325, 346-373) *)

MaxParts == 3

\* the pieces v.split('.') gives: decimal numerals and one that int() rejects
Numerals == {"0", "1"}
Parts == Numerals \cup {"x"}

\* version strings, as the sequence of their dot-separated pieces
Versions == UNION {[1..n -> Parts] : n \in 1..MaxParts}

VersionOps == {"<", ">", "=="}

\* int(part)
IntOf(part) == IF part = "0" THEN 0 ELSE 1

\* int(part) raises ValueError
Unparsable(v) == \E i \in 1..Len(v) : v[i] \notin Numerals

\* version_tuple (369-370)
version_tuple(v) == [i \in 1..Len(v) |-> IntOf(v[i])]

\* t1 < t2 on tuples: the first differing position decides, and a proper
\* prefix is smaller than the longer tuple
TupleLess(t1, t2) ==
    \/ \E i \in 1..Len(t1) :
          /\ i <= Len(t2)
          /\ \A k \in 1..(i - 1) : t1[k] = t2[k]
          /\ t1[i] < t2[i]
    \/ /\ Len(t1) < Len(t2)
       /\ \A k \in 1..Len(t1) : t1[k] = t2[k]

BoolInt(b) == IF b THEN 1 ELSE 0

\* _compare_versions (367-373): (t1 > t2) - (t1 < t2)
compare_versions(v1, v2) ==
    LET t1 == version_tuple(v1)
        t2 == version_tuple(v2)
    IN BoolInt(TupleLess(t2, t1)) - BoolInt(TupleLess(t1, t2))

\* _evaluate_version_condition (304-325): a ValueError of int() is caught at
\* 323 and gives False
evaluate_version_condition(cur, cond) ==
    IF Unparsable(cur) \/ Unparsable(cond.target) THEN FALSE
    ELSE IF cond.op = "<" THEN compare_versions(cur, cond.target) < 0
    ELSE IF cond.op = ">" THEN compare_versions(cur, cond.target) > 0
    ELSE compare_versions(cur, cond.target) = 0

\* the version has not been read yet: no version string has no pieces
Unread == <<>>

VerOnly == UNCHANGED <<pvars, condVars, mergeVars, runVars, extraVars>>

VerInit ==
    /\ condition \in [op : VersionOps, target : Versions]
    /\ current_version = Unread
    /\ ver_ret = NotReturned
    /\ PipelineIdle /\ CondIdle /\ MergeIdle /\ RunsIdle /\ ExtraIdle

\* current_version = self._get_current_version() (308): the tag git
\* describes, or the content of the VERSION file
GetCurrentVersion ==
    /\ VerOnly
    /\ current_version = Unread
    /\ current_version' \in Versions
    /\ UNCHANGED <<condition, ver_ret>>

\* lines 310-325
CompareWithTarget ==
    /\ VerOnly
    /\ current_version # Unread
    /\ ver_ret = NotReturned
    /\ ver_ret' = [kind |-> "returned",
                   value |-> evaluate_version_condition(current_version,
                                                        condition)]
    /\ UNCHANGED <<condition, current_version>>

VerNext ==
    \/ GetCurrentVersion
    \/ CompareWithTarget

SpecVersion == VerInit /\ [][VerNext]_vars

-----------------------------------------------------------------------------
(* AdvancedConfigMerger (lines 594-706) *)

\* the keys and the scalar values of the configuration sections
Keys == {"a", "b"}
Scalars == {1, 2}

\* a value is a scalar or a nested mapping (a TOML table)
Scalar(x) == [s |-> x]
Dict(m) == [d |-> m]

\* isinstance(value, dict)
IsDict(v) == "d" \in DOMAIN v

\* the mappings whose values are drawn from V
MappingsOver(V) == UNION {[D -> V] : D \in SUBSET Keys}

ScalarValues == {Scalar(x) : x \in Scalars}

\* mappings of scalars, and mappings that nest them
FlatMappings == MappingsOver(ScalarValues)
Mappings == MappingsOver(ScalarValues \cup {Dict(m) : m \in FlatMappings})

\* a merge in which the update wins every conflict
merge_new_wins(old, new) ==
    [k \in DOMAIN old \cup DOMAIN new |->
        IF k \in DOMAIN new THEN new[k] ELSE old[k]]

\* _merge_preserve_user (663-679): the copy of new, in which recursive_merge
\* puts old's value under every key of old that new has too
RECURSIVE merge_preserve_user(_, _)
merge_preserve_user(old, new) ==
    [k \in DOMAIN new |->
        IF k \in DOMAIN old
        THEN IF IsDict(old[k]) /\ IsDict(new[k])
             THEN Dict(merge_preserve_user(old[k].d, new[k].d))
             ELSE old[k]
        ELSE new[k]]

\* _merge_update_only (681-694): the copy of old, to which recursive_update
\* adds the keys of new that are missing
RECURSIVE merge_update_only(_, _)
merge_update_only(old, new) ==
    [k \in DOMAIN old \cup DOMAIN new |->
        IF k \notin DOMAIN old THEN new[k]
        ELSE IF k \in DOMAIN new /\ IsDict(new[k]) /\ IsDict(old[k])
             THEN Dict(merge_update_only(old[k].d, new[k].d))
             ELSE old[k]]

\* a merge_smart that merges the preserved keys instead of copying them
merge_smart_recursive(old, new, keys) ==
    [k \in DOMAIN new \cup (keys \cap DOMAIN old) |->
        IF k \in keys /\ k \in DOMAIN old
        THEN IF k \in DOMAIN new /\ IsDict(old[k]) /\ IsDict(new[k])
             THEN Dict(merge_update_only(old[k].d, new[k].d))
             ELSE old[k]
        ELSE new[k]]

\* _merge_smart (696-706): the copy of new with merged[key] = old_section[key]
\* for the keys of preserve_keys that old has
merge_smart(old, new, keys) ==
    [k \in DOMAIN new \cup (keys \cap DOMAIN old) |->
        IF k \in keys /\ k \in DOMAIN old THEN old[k] ELSE new[k]]

\* the object new after _merge_preserve_user: merged is a shallow copy of new
\* (665), so merged_dict[key] at 671-674 is the nested mapping of new itself
\* and recursive_merge stores old's values into it
new_after_preserve_user(old, new) ==
    [k \in DOMAIN new |->
        IF k \in DOMAIN old /\ IsDict(old[k]) /\ IsDict(new[k])
        THEN Dict(merge_preserve_user(old[k].d, new[k].d))
        ELSE new[k]]

\* the object old after _merge_update_only: merged is a shallow copy of old
\* (684), so recursive_update at 690-691 adds new's keys to the nested
\* mappings of old itself
old_after_update_only(old, new) ==
    [k \in DOMAIN old |->
        IF k \in DOMAIN new /\ IsDict(new[k]) /\ IsDict(old[k])
        THEN Dict(merge_update_only(old[k].d, new[k].d))
        ELSE old[k]]

MergeOnly == UNCHANGED <<pvars, condVars, verVars, runVars, extraVars>>

NotMerged == [strategy |-> "none"]

MergeInit ==
    /\ old_section \in Mappings
    /\ new_section \in Mappings
    /\ preserve_keys = {}
    /\ merged = NotMerged
    /\ old_after = old_section
    /\ new_after = new_section
    /\ PipelineIdle /\ CondIdle /\ VerIdle /\ RunsIdle /\ ExtraIdle

MergePreserveUser ==
    /\ MergeOnly
    /\ merged = NotMerged
    /\ merged' = [strategy |-> "preserve_user",
                  value |-> merge_preserve_user(old_section, new_section)]
    /\ new_after' = new_after_preserve_user(old_section, new_section)
    /\ UNCHANGED <<old_section, new_section, preserve_keys, old_after>>

MergeUpdateOnly ==
    /\ MergeOnly
    /\ merged = NotMerged
    /\ merged' = [strategy |-> "update_only",
                  value |-> merge_update_only(old_section, new_section)]
    /\ old_after' = old_after_update_only(old_section, new_section)
    /\ UNCHANGED <<old_section, new_section, preserve_keys, new_after>>

\* preserve_keys = section_config.get('preserve_keys', []) (649)
MergeSmart ==
    /\ MergeOnly
    /\ merged = NotMerged
    /\ \E keys \in SUBSET Keys :
          /\ preserve_keys' = keys
          /\ merged' = [strategy |-> "merge_smart",
                        value |-> merge_smart(old_section, new_section, keys)]
    /\ UNCHANGED <<old_section, new_section, old_after, new_after>>

MergeNext ==
    \/ MergePreserveUser
    \/ MergeUpdateOnly
    \/ MergeSmart

SpecMerge == MergeInit /\ [][MergeNext]_vars

-----------------------------------------------------------------------------
(* Two invocations of apply_updates_complete on one installation: the same
   ship.toml, hence the same app_dir and backup_dir, and the same manifest
   version, hence the same backup_path (lines 1056-1057, 1315) *)

Runs == {"first", "second"}

\* the files of the update, which both runs write into app_dir
Files == {"f1", "f2"}

\* the content of the installation before any run
Deployed == [f \in Files |-> "deployed"]

\* backup_path before the first create_backup
NoBackup == [f \in Files |-> "none"]

RunsOnly == UNCHANGED <<pvars, condVars, verVars, mergeVars, extraVars>>

RunsInit ==
    /\ run_pc = [r \in Runs |-> "gates"]
    /\ app_tree = Deployed
    /\ backup_store = NoBackup
    /\ run_written = [r \in Runs |-> {}]
    /\ PipelineIdle /\ CondIdle /\ VerIdle /\ MergeIdle /\ ExtraIdle

\* stages 1-6 (1005-1053): nothing is acquired before the run goes on
PassGates(r) ==
    /\ RunsOnly
    /\ run_pc[r] = "gates"
    /\ \E ok \in BOOLEAN :
          run_pc' = [run_pc EXCEPT ![r] = IF ok THEN "snapshot" ELSE "stopped"]
    /\ UNCHANGED <<app_tree, backup_store, run_written>>

\* create_backup (1315-1322): rsync -a --delete app_dir/ backup_path/
TakeSnapshot(r) ==
    /\ RunsOnly
    /\ run_pc[r] = "snapshot"
    /\ backup_store' = app_tree
    /\ run_pc' = [run_pc EXCEPT ![r] = "filesync"]
    /\ UNCHANGED <<app_tree, run_written>>

\* _process_files_advanced (1146-1151): one file of the update is written
WriteFile(r) ==
    /\ RunsOnly
    /\ run_pc[r] = "filesync"
    /\ \E f \in Files \ run_written[r] :
          /\ app_tree' = [app_tree EXCEPT ![f] = r]
          /\ run_written' = [run_written EXCEPT ![r] = @ \cup {f}]
    /\ UNCHANGED <<run_pc, backup_store>>

\* _process_files_advanced returns True (1153)
FileSyncDone(r) ==
    /\ RunsOnly
    /\ run_pc[r] = "filesync"
    /\ run_written[r] = Files
    /\ run_pc' = [run_pc EXCEPT ![r] = "verify"]
    /\ UNCHANGED <<app_tree, backup_store, run_written>>

\* a file fails (1150-1151) and the run rolls back (1069-1072):
\* rsync -a --delete backup_path/ app_dir/
FileSyncFails(r) ==
    /\ RunsOnly
    /\ run_pc[r] = "filesync"
    /\ run_written[r] # Files
    /\ app_tree' = backup_store
    /\ run_pc' = [run_pc EXCEPT ![r] = "failed"]
    /\ UNCHANGED <<backup_store, run_written>>

\* stages 10-13 (1074-1109): the run succeeds, or a post-hook or a test fails
\* under a rollback policy and the backup is restored
Verify(r) ==
    /\ RunsOnly
    /\ run_pc[r] = "verify"
    /\ \E ok \in BOOLEAN :
          IF ok
          THEN /\ run_pc' = [run_pc EXCEPT ![r] = "succeeded"]
               /\ app_tree' = app_tree
          ELSE /\ run_pc' = [run_pc EXCEPT ![r] = "failed"]
               /\ app_tree' = backup_store
    /\ UNCHANGED <<backup_store, run_written>>

RunsNext ==
    \E r \in Runs :
        \/ PassGates(r)
        \/ TakeSnapshot(r)
        \/ WriteFile(r)
        \/ FileSyncDone(r)
        \/ FileSyncFails(r)
        \/ Verify(r)

SpecTwoRuns == RunsInit /\ [][RunsNext]_vars

-----------------------------------------------------------------------------
(* Merging a configuration file (lines 597-661, 1203-1278) *)

\* the strategy names of the design, and one that is none of them
KnownStrategies == {"replace", "preserve_user", "update_only", "merge_smart"}
StrategyNames == KnownStrategies \cup {"bogus"}

\* configuration documents: top-level sections that are tables of scalars
Documents == MappingsOver({Dict(m) : m \in FlatMappings})

\* what a path holds
Absent == [kind |-> "absent"]
Unparsable_file == [kind |-> "invalid"]
FileWith(doc) == [kind |-> "document", doc |-> doc]

\* old_config = {} unless the target exists (1228-1231, 603-606)
Loaded(file) == IF file.kind = "document" THEN file.doc ELSE <<>>

\* the configuration of one section: a strategy, preserve_keys for
\* merge_smart, or no strategy at all
SectionConfigs ==
    {[strategy |-> st] : st \in StrategyNames \ {"merge_smart"}}
    \cup {[strategy |-> "merge_smart", preserve_keys |-> {"a"}]}
    \cup {[preserve_keys |-> {}]}

\* section name -> section configuration
SectionMaps == MappingsOver(SectionConfigs)

\* get_merge_strategy_for_file (927-932) found no entry: it returns {}
NoEntry == [matched |-> FALSE]

\* the merge_strategies entries of a file: none, one with a strategy only,
\* one with a sections map
MergeEntries ==
    {NoEntry, [strategy |-> "replace"]}
    \cup {[sections |-> m] : m \in SectionMaps}

\* the merge_strategy of the file rule; "unset" when the rule has none
RuleStrategies == StrategyNames \cup {"unset"}

\* config.get('merge_strategy', 'preserve_user') (1216, 1264)
RuleStrategy(rs) == IF rs = "unset" THEN "preserve_user" ELSE rs

\* section_config.get('strategy', 'replace') (636)
SectionStrategy(cfg) ==
    IF "strategy" \in DOMAIN cfg THEN cfg.strategy ELSE "replace"

\* section_config.get('preserve_keys', []) (652)
SectionPreserveKeys(cfg) ==
    IF "preserve_keys" \in DOMAIN cfg THEN cfg.preserve_keys ELSE {}

\* _apply_section_strategies (626-661): result is the copy of new, in which
\* every key of merge_strategies that old and new both have is merged under
\* the strategy of its configuration; replace and unknown names leave new's
\* section
apply_section_strategies(old, new, merge_strategies) ==
    [k \in DOMAIN new |->
        IF k \in DOMAIN merge_strategies /\ k \in DOMAIN old
        THEN IF SectionStrategy(merge_strategies[k]) = "preserve_user"
             THEN Dict(merge_preserve_user(old[k].d, new[k].d))
             ELSE IF SectionStrategy(merge_strategies[k]) = "update_only"
             THEN Dict(merge_update_only(old[k].d, new[k].d))
             ELSE IF SectionStrategy(merge_strategies[k]) = "merge_smart"
             THEN Dict(merge_smart(old[k].d, new[k].d,
                                   SectionPreserveKeys(merge_strategies[k])))
             ELSE new[k]
        ELSE new[k]]

\* a whole-file merge that keeps the deployed document under replace
merge_toml_basic_keeping_old(old, new, strategy) ==
    IF strategy = "update_only" THEN merge_update_only(old, new)
    ELSE merge_preserve_user(old, new)

\* _merge_toml_basic, the strategy dispatch (1236-1241)
merge_toml_basic(old, new, strategy) ==
    IF strategy = "preserve_user" THEN merge_preserve_user(old, new)
    ELSE IF strategy = "update_only" THEN merge_update_only(old, new)
    ELSE new

\* _merge_json_file, the strategy dispatch (1264-1268): {**new_data, **old_data}
merge_json(old, new, strategy) ==
    IF strategy = "preserve_user"
    THEN [k \in DOMAIN new \cup DOMAIN old |->
            IF k \in DOMAIN old THEN old[k] ELSE new[k]]
    ELSE new

FileOnly ==
    UNCHANGED <<pvars, condVars, verVars, mergeVars, runVars,
                rolloutVars, migVars, ruleVars, laterVars>>

NoCall == [via |-> "none"]

FileMergeInit ==
    /\ target_file \in {Absent, Unparsable_file} \cup
                        {FileWith(d) : d \in Documents}
    /\ source_file \in {FileWith(d) : d \in Documents}
    /\ merge_call = NoCall
    /\ file_ok = "none"
    /\ write_pc = Idle
    /\ to_write = Idle
    /\ PipelineIdle /\ CondIdle /\ VerIdle /\ MergeIdle /\ RunsIdle
    /\ RolloutIdle /\ MigIdle /\ RuleIdle /\ LaterIdle

\* the end of a merge: the merged document is written to the target and True
\* is returned; a target that tomllib or json cannot load raises, which the
\* handlers at 622, 1249 and 1276 turn into False with the target untouched
FinishMerge(document) ==
    IF target_file = Unparsable_file
    THEN file_ok' = FALSE /\ target_file' = target_file
    ELSE file_ok' = TRUE /\ target_file' = FileWith(document)

\* _merge_toml_advanced (1203-1221) for a file with action merge_toml
MergeTomlFile ==
    /\ FileOnly
    /\ merge_call = NoCall
    /\ \E entry \in MergeEntries :
          IF "sections" \in DOMAIN entry
          THEN \* merge_toml_advanced(target, source, target, merge_config)
               /\ merge_call' = [via |-> "merge_toml", entry |-> entry,
                                 old_config |-> Loaded(target_file)]
               /\ FinishMerge(apply_section_strategies(
                       Loaded(target_file), source_file.doc, entry))
          ELSE \E rs \in RuleStrategies :
                 /\ merge_call' = [via |-> "merge_toml", entry |-> entry,
                                   rule_strategy |-> rs,
                                   old_config |-> Loaded(target_file)]
                 /\ FinishMerge(merge_toml_basic(
                         Loaded(target_file), source_file.doc, RuleStrategy(rs)))
    /\ UNCHANGED <<source_file, write_pc, to_write>>

\* AdvancedConfigMerger.merge_toml_advanced (597-624) called with a
\* section name -> configuration mapping
MergeTomlSections ==
    /\ FileOnly
    /\ merge_call = NoCall
    /\ \E ms \in SectionMaps :
          /\ merge_call' = [via |-> "sections", merge_strategies |-> ms,
                            old_config |-> Loaded(target_file)]
          /\ FinishMerge(apply_section_strategies(
                  Loaded(target_file), source_file.doc, ms))
    /\ UNCHANGED <<source_file, write_pc, to_write>>

\* _merge_json_file (1253-1278) for a file with action merge_json
MergeJsonFile ==
    /\ FileOnly
    /\ merge_call = NoCall
    /\ \E rs \in RuleStrategies :
          /\ merge_call' = [via |-> "merge_json", rule_strategy |-> rs,
                            old_config |-> Loaded(target_file)]
          /\ FinishMerge(merge_json(
                  Loaded(target_file), source_file.doc, RuleStrategy(rs)))
    /\ UNCHANGED <<source_file, write_pc, to_write>>

FileMergeNext ==
    \/ MergeTomlFile
    \/ MergeTomlSections
    \/ MergeJsonFile

SpecFileMerge == FileMergeInit /\ [][FileMergeNext]_vars

-----------------------------------------------------------------------------
(* Writing the merged document (lines 1243-1247, 616-620, 1270-1271), step by
   step, in a process that can die at any point *)

EmptyFile == [kind |-> "empty"]

\* the file holds the beginning of the document's serialization
PartOf(doc) == [kind |-> "partial", doc |-> doc]

WriteInit ==
    /\ target_file \in {Absent} \cup {FileWith(d) : d \in Documents}
    /\ to_write \in Documents
    /\ merge_call = [via |-> "write", previous |-> target_file]
    /\ write_pc = "merged"
    /\ source_file = Idle
    /\ file_ok = "none"
    /\ PipelineIdle /\ CondIdle /\ VerIdle /\ MergeIdle /\ RunsIdle
    /\ RolloutIdle /\ MigIdle /\ RuleIdle /\ LaterIdle

\* open(target_file, 'wb'): the file is created or truncated
OpenTarget ==
    /\ FileOnly
    /\ write_pc = "merged"
    /\ target_file' = EmptyFile
    /\ write_pc' = "opened"
    /\ UNCHANGED <<source_file, merge_call, file_ok, to_write>>

\* tomli_w.dump / json.dump: the first bytes reach the file
DumpPart ==
    /\ FileOnly
    /\ write_pc = "opened"
    /\ target_file' = PartOf(to_write)
    /\ write_pc' = "dumping"
    /\ UNCHANGED <<source_file, merge_call, file_ok, to_write>>

\* the rest is written and the with block closes the file; return True
CloseTarget ==
    /\ FileOnly
    /\ write_pc \in {"opened", "dumping"}
    /\ target_file' = FileWith(to_write)
    /\ write_pc' = "closed"
    /\ file_ok' = TRUE
    /\ UNCHANGED <<source_file, merge_call, to_write>>

\* the process dies: the file keeps what has been written to it
Crash ==
    /\ FileOnly
    /\ write_pc \in {"merged", "opened", "dumping"}
    /\ write_pc' = "crashed"
    /\ UNCHANGED <<target_file, source_file, merge_call, file_ok, to_write>>

WriteNext ==
    \/ OpenTarget
    \/ DumpPart
    \/ CloseTarget
    \/ Crash

SpecWrite == WriteInit /\ [][WriteNext]_vars

-----------------------------------------------------------------------------
(* Staged rollout (lines 801-860) *)

MaxStages == 2

\* values of hash(self.system_id) % 100 (834, 840)
HashValues == {5, 10, 50}

Percentages == {10, 100}

\* no criteria, one over server_id, one that eval rejects, one without
\* server_id
Criteria == {"", "server_id < 50", "server_id <", "region == 'eu'"}

\* a stage's wait_hours, with the hours since the stage became active
StageWaits ==
    {[wait_hours |-> 0, active_hours |-> 0],
     [wait_hours |-> 24, active_hours |-> 1],
     [wait_hours |-> 24, active_hours |-> 48]}

Stages ==
    {[percentage |-> p, criteria |-> c,
      wait_hours |-> w.wait_hours, active_hours |-> w.active_hours] :
        p \in Percentages, c \in Criteria, w \in StageWaits}

\* stage.get('name'), by position in the list
StageNames == <<"canary", "ga", "late", "last">>

StageLists == UNION {[1..n -> Stages] : n \in 0..MaxStages}

RolloutConfigs ==
    {[strategy |-> "staged", stages |-> l] : l \in StageLists} \cup
    {[strategy |-> "immediate", stages |-> <<>>]}

\* 'server_id' in criteria (838)
MentionsServerId(criteria) == criteria \in {"server_id < 50", "server_id <"}

\* eval(expression) raises (843, caught at 844)
EvalRaises(criteria) == criteria = "server_id <"

\* eval(criteria.replace('server_id', str(server_id))) (841-843)
EvalCriteria(criteria, server_id) == server_id < 50

\* _matches_criteria with the percentage applied to a stage that has a
\* criteria as well
matches_criteria_within_percentage(stage, h) ==
    IF stage.criteria = "" THEN h < stage.percentage
    ELSE IF MentionsServerId(stage.criteria)
    THEN IF EvalRaises(stage.criteria) THEN FALSE
         ELSE EvalCriteria(stage.criteria, h) /\ h < stage.percentage
    ELSE FALSE

\* _matches_criteria (831-851)
matches_criteria(stage, h) ==
    IF stage.criteria = "" THEN h < stage.percentage
    ELSE IF MentionsServerId(stage.criteria)
    THEN IF EvalRaises(stage.criteria) THEN FALSE
         ELSE EvalCriteria(stage.criteria, h)
    ELSE FALSE

\* _has_wait_time_passed (853-860)
has_wait_time_passed(stage) == IF stage.wait_hours = 0 THEN TRUE ELSE TRUE

\* what should_update_in_stage returns, with the number of stages the loop
\* looked at and the hash value of the process that made the call
Decision(ok, reason, stage, examined, h) ==
    [ok |-> ok, reason |-> reason, stage |-> stage, examined |-> examined,
     h |-> h]

NotDecided == [reason |-> "none"]

\* the loop from its last stage backwards: the last matching stage decides
scan_stages_last_match(stages, i, h) ==
    LET matching == {k \in i..Len(stages) : matches_criteria(stages[k], h)}
    IN IF matching = {}
       THEN Decision(FALSE, "not_selected", "", Len(stages), h)
       ELSE LET k == CHOOSE m \in matching : \A n \in matching : n <= m
            IN Decision(TRUE, "updating", StageNames[k], Len(stages), h)

\* the loop of should_update_in_stage from stage i on (815-829)
RECURSIVE scan_stages(_, _, _)
scan_stages(stages, i, h) ==
    IF i > Len(stages)
    THEN Decision(FALSE, "not_selected", "", Len(stages), h)
    ELSE IF matches_criteria(stages[i], h)
    THEN IF has_wait_time_passed(stages[i])
         THEN Decision(TRUE, "updating", StageNames[i], i, h)
         ELSE Decision(FALSE, "waiting", StageNames[i], i, h)
    ELSE scan_stages(stages, i + 1, h)

\* should_update_in_stage (808-829)
should_update_in_stage(config, h) ==
    IF config.strategy # "staged"
    THEN Decision(TRUE, "not_configured", "", 0, h)
    ELSE scan_stages(config.stages, 1, h)

RolloutOnly ==
    UNCHANGED <<pvars, condVars, verVars, mergeVars, runVars,
                fileVars, migVars, ruleVars, laterVars>>

RolloutInit ==
    /\ rollout_config \in RolloutConfigs
    /\ process_hash \in HashValues
    /\ decision = NotDecided
    /\ earlier = NotDecided
    /\ PipelineIdle /\ CondIdle /\ VerIdle /\ MergeIdle /\ RunsIdle
    /\ FileIdle /\ MigIdle /\ RuleIdle /\ LaterIdle

\* a call of should_update_in_stage (1015) in the running process
ShouldUpdateInStage ==
    /\ RolloutOnly
    /\ decision' = should_update_in_stage(rollout_config, process_hash)
    /\ earlier' = decision
    /\ UNCHANGED <<rollout_config, process_hash>>

\* the next run of the updater: a new process, whose str hashes are salted
\* anew, builds StagedRolloutManager(self.system_id) (959)
StartProcess ==
    /\ RolloutOnly
    /\ process_hash' \in HashValues
    /\ UNCHANGED <<rollout_config, decision, earlier>>

RolloutNext ==
    \/ ShouldUpdateInStage
    \/ StartProcess

SpecRollout == RolloutInit /\ [][RolloutNext]_vars

-----------------------------------------------------------------------------
(* Migrations (lines 383-423, 480) *)

MaxMigrations == 2

\* the version strings of one and of two pieces
MigrationVersions == UNION {[1..n -> Parts] : n \in {1, 2}}

\* migrations[version]: one script, or a list of scripts; each script is
\* written as the result its run will have
ScriptLists == {<<"ok">>, <<"fail", "ok">>}

MigrationMaps ==
    UNION {[keys -> ScriptLists] :
              keys \in {k \in SUBSET MigrationVersions :
                           Cardinality(k) <= MaxMigrations}}

\* the sort key tuple(map(int, v.split('.'))) raises for one of the keys (391)
SortKeyRaises(keys) == \E v \in keys : Unparsable(v)

\* sorted(migrations.keys(), key=...) (389-392)
RECURSIVE sorted_versions(_)
sorted_versions(keys) ==
    IF keys = {} THEN <<>>
    ELSE LET least ==
               CHOOSE v \in keys :
                   \A w \in keys \ {v} :
                       TupleLess(version_tuple(v), version_tuple(w))
         IN <<least>> \o sorted_versions(keys \ {least})

\* _should_run_migration (413-423): _version_to_tuple raising gives False
should_run_migration(current, migration, target) ==
    IF Unparsable(current) \/ Unparsable(migration) \/ Unparsable(target)
    THEN FALSE
    ELSE /\ TupleLess(version_tuple(current), version_tuple(migration))
         /\ \/ TupleLess(version_tuple(migration), version_tuple(target))
            \/ version_tuple(migration) = version_tuple(target)

\* one run of _run_migration_script (425-459)
Execution(version, j, outcome) ==
    [version |-> version, script |-> j, outcome |-> outcome]

\* `for script in scripts` (403-405) from script j on
RECURSIVE run_scripts(_, _, _, _)
run_scripts(version, scripts, j, executed) ==
    IF j > Len(scripts) THEN [executed |-> executed, ok |-> TRUE]
    ELSE LET now == Append(executed, Execution(version, j, scripts[j]))
         IN IF scripts[j] = "fail" THEN [executed |-> now, ok |-> FALSE]
            ELSE run_scripts(version, scripts, j + 1, now)

\* `for version in migration_versions` (395-405) from position i on
RECURSIVE run_versions(_, _, _, _, _, _)
run_versions(migs, versions, i, current, target, executed) ==
    IF i > Len(versions) THEN [executed |-> executed, ok |-> TRUE]
    ELSE IF should_run_migration(current, versions[i], target)
    THEN LET ran == run_scripts(versions[i], migs[versions[i]], 1, executed)
         IN IF ran.ok
            THEN run_versions(migs, versions, i + 1, current, target,
                              ran.executed)
            ELSE ran
    ELSE run_versions(migs, versions, i + 1, current, target, executed)

\* run_migrations (383-411)
run_migrations(migs, current, target) ==
    IF SortKeyRaises(DOMAIN migs) THEN [executed |-> <<>>, ok |-> FALSE]
    ELSE run_versions(migs, sorted_versions(DOMAIN migs), 1, current, target,
                      <<>>)

MigOnly ==
    UNCHANGED <<pvars, condVars, verVars, mergeVars, runVars,
                fileVars, rolloutVars, ruleVars, laterVars>>

MigInit ==
    /\ migrations \in MigrationMaps
    /\ installed_version \in MigrationVersions
    /\ target_version \in MigrationVersions
    /\ scripts_executed = <<>>
    /\ migrations_ok = NotReturned
    /\ PipelineIdle /\ CondIdle /\ VerIdle /\ MergeIdle /\ RunsIdle
    /\ FileIdle /\ RolloutIdle /\ RuleIdle /\ LaterIdle

\* run_migrations(manifest.migrations, manifest.version) (1067-1069)
RunMigrations ==
    /\ MigOnly
    /\ migrations_ok = NotReturned
    /\ LET ran == run_migrations(migrations, installed_version,
                                 target_version)
       IN /\ scripts_executed' = ran.executed
          /\ migrations_ok' = [kind |-> "returned", value |-> ran.ok]
    /\ UNCHANGED <<migrations, installed_version, target_version>>

MigNext == RunMigrations

SpecMigrations == MigInit /\ [][MigNext]_vars

-----------------------------------------------------------------------------
(* File rule resolution (lines 893-913, 934-940) *)

MaxFileRules == 2

\* relative paths, as the sequence of their characters
Paths == {<<"a">>, <<"b">>, <<"a", "b">>, <<"b", "a">>}

\* keys of the manifest's files mapping: literal ones and ones with '*'
Patterns == {<<"a">>, <<"a", "b">>, <<"*">>, <<"a", "*">>, <<"*", "b">>}

\* the configurations of a key: with an action, and without one
FileConfigs ==
    {[action |-> "skip"], [action |-> "merge_toml"],
     [merge_strategy |-> "preserve_user"]}

\* self.files, in the order of the manifest; the keys of a mapping differ
FileRuleLists ==
    {l \in UNION {[1..n -> [pattern : Patterns, config : FileConfigs]] :
                     n \in 0..MaxFileRules} :
        \A i, k \in 1..Len(l) : i # k => l[i].pattern # l[k].pattern}

\* fnmatch.fnmatch(path, pattern) (939-940) for patterns of literals and '*'
RECURSIVE fnmatch(_, _)
fnmatch(path, pattern) ==
    IF pattern = <<>> THEN path = <<>>
    ELSE IF Head(pattern) = "*"
    THEN \/ fnmatch(path, Tail(pattern))
         \/ path # <<>> /\ fnmatch(Tail(path), pattern)
    ELSE /\ path # <<>>
         /\ Head(path) = Head(pattern)
         /\ fnmatch(Tail(path), Tail(pattern))

\* '*' in pattern (936)
HasStar(pattern) == \E i \in 1..Len(pattern) : pattern[i] = "*"

\* _match_pattern (934-940)
match_pattern(path, pattern) ==
    IF ~HasStar(pattern) THEN path = pattern
    ELSE fnmatch(path, pattern)

\* config.get('action', 'replace')
ActionOf(config) ==
    IF "action" \in DOMAIN config THEN config.action ELSE "replace"

\* file_path in self.files (895, 906)
HasKey(rules, path) == \E i \in 1..Len(rules) : rules[i].pattern = path

\* self.files[file_path]
ConfigAt(rules, path) ==
    rules[CHOOSE i \in 1..Len(rules) : rules[i].pattern = path].config

\* the loop of get_file_action alone (898-902): the first key in order that
\* matches, an equal key being one of them
RECURSIVE action_in_order(_, _, _)
action_in_order(rules, path, i) ==
    IF i > Len(rules) THEN "replace"
    ELSE IF match_pattern(path, rules[i].pattern)
    THEN ActionOf(rules[i].config)
    ELSE action_in_order(rules, path, i + 1)

get_file_action_in_order(rules, path) == action_in_order(rules, path, 1)

\* get_file_action (893-902)
get_file_action(rules, path) ==
    IF HasKey(rules, path) THEN ActionOf(ConfigAt(rules, path))
    ELSE action_in_order(rules, path, 1)

\* the loop of get_file_config (909-913)
RECURSIVE config_in_order(_, _, _)
config_in_order(rules, path, i) ==
    IF i > Len(rules) THEN [action |-> "replace"]
    ELSE IF match_pattern(path, rules[i].pattern) THEN rules[i].config
    ELSE config_in_order(rules, path, i + 1)

\* get_file_config (904-913)
get_file_config(rules, path) ==
    IF HasKey(rules, path) THEN ConfigAt(rules, path)
    ELSE config_in_order(rules, path, 1)

RuleOnly ==
    UNCHANGED <<pvars, condVars, verVars, mergeVars, runVars,
                fileVars, rolloutVars, migVars, laterVars>>

RuleInit ==
    /\ files \in FileRuleLists
    /\ file_path \in Paths
    /\ file_action = NotReturned
    /\ file_config = NotReturned
    /\ PipelineIdle /\ CondIdle /\ VerIdle /\ MergeIdle /\ RunsIdle
    /\ FileIdle /\ RolloutIdle /\ MigIdle /\ LaterIdle

\* action = manifest.get_file_action(rel_path) (1163)
GetFileAction ==
    /\ RuleOnly
    /\ file_action = NotReturned
    /\ file_action' = [kind |-> "returned",
                       value |-> get_file_action(files, file_path)]
    /\ UNCHANGED <<files, file_path, file_config>>

\* config = manifest.get_file_config(rel_path) (1164, 1216)
GetFileConfig ==
    /\ RuleOnly
    /\ file_config = NotReturned
    /\ file_config' = [kind |-> "returned",
                       value |-> get_file_config(files, file_path)]
    /\ UNCHANGED <<files, file_path, file_action>>

RuleNext ==
    \/ GetFileAction
    \/ GetFileConfig

SpecRules == RuleInit /\ [][RuleNext]_vars

-----------------------------------------------------------------------------
(* Stages waiting on external commands
   (lines 274-302, 425-459, 565-585, 715-762, 1280-1299, 1314-1329) *)

MaxRetries == 2

\* what a command does once started: exit with status 0, exit with another
\* status, or never exit
Behaviours == {"exit0", "nonzero", "hang"}

\* the call sites whose subprocess.run carries timeout= (1287, 440, 740, 572)
TimedSites == {"pre_hook", "post_hook", "migration", "test", "cleanup"}

\* the call sites whose subprocess.run carries none (277, 297, 1316, 1324)
UntimedSites ==
    {"condition_command", "service_probe", "snapshot_create",
     "snapshot_restore"}

HasTimeout(site) == site \in TimedSites

\* a hook, a script, a cleanup command or a probe: started once
SingleTasks == {[retry_count |-> 1, behaviours |-> <<b>>] : b \in Behaviours}

\* a test with its retry_count, and what each of its attempts would do
TestTasks ==
    UNION {{[retry_count |-> n, behaviours |-> bs] :
               bs \in [1..n -> Behaviours]} : n \in 0..MaxRetries}

\* the lists of at most two tasks
UpToTwo(T) ==
    {<<>>} \cup {<<t>> : t \in T} \cup {<<t, u>> : t \in T, u \in T}

\* `listed`: the stage's trigger kind is in rollback.auto_rollback_on
StageCalls ==
    {[site |-> s, tasks |-> l, listed |-> r] :
        s \in TimedSites \ {"test"}, l \in UpToTwo(SingleTasks),
        r \in BOOLEAN}
    \cup {[site |-> "test", tasks |-> l, listed |-> r] :
             l \in UpToTwo(TestTasks), r \in BOOLEAN}
    \cup {[site |-> s, tasks |-> <<t>>, listed |-> FALSE] :
             s \in UntimedSites, t \in SingleTasks}

\* what apply_updates_complete does with the stage's result (1050-1089);
\* rsync runs with check=True, a non-zero exit raises (1316-1328)
StageEffect(site, ok, listed) ==
    IF ok THEN "continue"
    ELSE IF site = "pre_hook" THEN "return_failed"
    ELSE IF site = "migration" THEN "restore"
    ELSE IF site \in {"post_hook", "test"}
    THEN IF listed THEN "restore" ELSE "continue"
    ELSE IF site \in {"snapshot_create", "snapshot_restore"} THEN "handler"
    ELSE "continue"

StageReturn(ok, effect) == [kind |-> "returned", ok |-> ok, effect |-> effect]

Attempt(i, a, outcome) == [task |-> i, attempt |-> a, outcome |-> outcome]

CmdOnly ==
    UNCHANGED <<pvars, condVars, verVars, mergeVars, runVars,
                fileVars, rolloutVars, migVars, ruleVars, treeVars,
                dispVars>>

CmdInit ==
    /\ stage_call \in StageCalls
    /\ task_i = 1
    /\ attempt = 1
    /\ running = 0
    /\ attempts_log = <<>>
    /\ failed_tests = {}
    /\ stage_ret = NotReturned
    /\ PipelineIdle /\ CondIdle /\ VerIdle /\ MergeIdle /\ RunsIdle
    /\ FileIdle /\ RolloutIdle /\ MigIdle /\ RuleIdle /\ TreeIdle /\ DispIdle

\* subprocess.run starts the command and waits for it
Spawn ==
    /\ CmdOnly
    /\ stage_ret = NotReturned
    /\ running = 0
    /\ task_i <= Len(stage_call.tasks)
    /\ stage_call.tasks[task_i].retry_count > 0
    /\ running' = running + 1
    /\ UNCHANGED <<stage_call, task_i, attempt, attempts_log, failed_tests,
                   stage_ret>>

\* `for attempt in range(retry_count)` with retry_count 0: no attempt, and
\* _run_single_test returns False (761-762)
TestWithoutAttempts ==
    /\ CmdOnly
    /\ stage_ret = NotReturned
    /\ running = 0
    /\ task_i <= Len(stage_call.tasks)
    /\ stage_call.tasks[task_i].retry_count = 0
    /\ failed_tests' = failed_tests \cup {task_i}
    /\ task_i' = task_i + 1
    /\ UNCHANGED <<stage_call, attempt, running, attempts_log, stage_ret>>

\* the caller's loop with a test that exited 0 attempted again while attempts
\* are left
ObserveRetryingAfterSuccess(outcome) ==
    /\ running' = running - 1
    /\ attempts_log' = Append(attempts_log, Attempt(task_i, attempt, outcome))
    /\ IF attempt < stage_call.tasks[task_i].retry_count
       THEN /\ attempt' = attempt + 1
            /\ UNCHANGED <<task_i, failed_tests>>
       ELSE /\ task_i' = task_i + 1
            /\ attempt' = 1
            /\ failed_tests' =
                  IF outcome = "exit0" THEN failed_tests
                  ELSE failed_tests \cup {task_i}
    /\ UNCHANGED <<stage_call, stage_ret>>

\* subprocess.run has come back with `outcome`: what the caller's loop does
Observe(outcome) ==
    /\ running' = running - 1
    /\ attempts_log' = Append(attempts_log, Attempt(task_i, attempt, outcome))
    /\ IF stage_call.site \in {"pre_hook", "post_hook", "migration"}
       THEN \* _run_hooks (1290-1298), run_migrations (404-405)
            IF outcome = "exit0"
            THEN /\ task_i' = task_i + 1
                 /\ UNCHANGED <<attempt, failed_tests, stage_ret>>
            ELSE /\ stage_ret' =
                       StageReturn(FALSE, StageEffect(stage_call.site, FALSE,
                                                      stage_call.listed))
                 /\ UNCHANGED <<task_i, attempt, failed_tests>>
       ELSE IF stage_call.site = "cleanup"
       THEN \* _run_commands (567-585): the result is only logged
            /\ task_i' = task_i + 1
            /\ UNCHANGED <<attempt, failed_tests, stage_ret>>
       ELSE IF stage_call.site = "test"
       THEN \* _run_single_test (735-762)
            IF outcome = "exit0"
            THEN /\ task_i' = task_i + 1
                 /\ attempt' = 1
                 /\ UNCHANGED <<failed_tests, stage_ret>>
            ELSE IF attempt < stage_call.tasks[task_i].retry_count
            THEN /\ attempt' = attempt + 1
                 /\ UNCHANGED <<task_i, failed_tests, stage_ret>>
            ELSE /\ task_i' = task_i + 1
                 /\ attempt' = 1
                 /\ failed_tests' = failed_tests \cup {task_i}
                 /\ UNCHANGED stage_ret
       ELSE \* the probes return returncode == 0 (278, 300); rsync raises
            /\ stage_ret' =
                  StageReturn(outcome = "exit0",
                              StageEffect(stage_call.site, outcome = "exit0",
                                          stage_call.listed))
            /\ UNCHANGED <<task_i, attempt, failed_tests>>
    /\ UNCHANGED stage_call

\* the command exits
ProcessExits ==
    /\ CmdOnly
    /\ running = 1
    /\ stage_call.tasks[task_i].behaviours[attempt] # "hang"
    /\ Observe(stage_call.tasks[task_i].behaviours[attempt])

\* subprocess.TimeoutExpired leaving the stage uncaught
TimeoutExpiresUncaught ==
    /\ CmdOnly
    /\ running = 1
    /\ HasTimeout(stage_call.site)
    /\ stage_call.tasks[task_i].behaviours[attempt] = "hang"
    /\ running' = running - 1
    /\ attempts_log' = Append(attempts_log, Attempt(task_i, attempt, "timeout"))
    /\ stage_ret' = StageReturn(FALSE, "handler")
    /\ UNCHANGED <<stage_call, task_i, attempt, failed_tests>>

\* the timeout of subprocess.run expires: the child is killed and
\* subprocess.TimeoutExpired is raised to the caller's except clause
TimeoutExpires ==
    /\ CmdOnly
    /\ running = 1
    /\ HasTimeout(stage_call.site)
    /\ stage_call.tasks[task_i].behaviours[attempt] = "hang"
    /\ Observe("timeout")

\* the loop is over: `return True` of _run_hooks (1299), run_migrations
\* (407) and _run_commands (587), `len(failed_tests) == 0` of run_tests (723)
ReturnFromStage ==
    /\ CmdOnly
    /\ stage_ret = NotReturned
    /\ running = 0
    /\ task_i > Len(stage_call.tasks)
    /\ stage_ret' =
          StageReturn(failed_tests = {},
                      StageEffect(stage_call.site, failed_tests = {},
                                  stage_call.listed))
    /\ UNCHANGED <<stage_call, task_i, attempt, running, attempts_log,
                   failed_tests>>

CmdNext ==
    \/ Spawn
    \/ TestWithoutAttempts
    \/ ProcessExits
    \/ TimeoutExpires
    \/ ReturnFromStage

SpecCommands == CmdInit /\ [][CmdNext]_vars

\* the interpreter keeps running and a command that can exit does exit
SpecCommandsFair == SpecCommands /\ WF_vars(CmdNext)

-----------------------------------------------------------------------------
(* The installation tree during one run
   (lines 1055-1089, 1142-1201, 1314-1329) *)

\* the files of the update, relative to source_dir
SourceFiles == {"app.conf", "conf.d/x.toml"}

\* target_file.with_suffix(target_file.suffix + '.backup') (1189)
BackupFileOf(f) ==
    IF f = "app.conf" THEN "app.conf.backup" ELSE "conf.d/x.toml.backup"

\* the paths of app_dir the run can touch
TreePaths ==
    SourceFiles \cup {BackupFileOf(f) : f \in SourceFiles} \cup {"conf.d"}

\* the paths below the directory conf.d
InConfD == {"conf.d/x.toml", "conf.d/x.toml.backup"}

\* what a path holds: nothing, a directory, the deployed content, or content
\* written since
Trees ==
    {t \in [TreePaths -> {"absent", "dir", "deployed", "changed"}] :
        /\ t["conf.d"] \in {"absent", "dir"}
        /\ \A p \in TreePaths \ {"conf.d"} : t[p] # "dir"
        /\ \A p \in InConfD : t[p] # "absent" => t["conf.d"] = "dir"}

\* the trees of an installation no run has touched
DeployedTrees ==
    {t \in Trees : \A p \in TreePaths : t[p] # "changed"}

EmptyTree == [p \in TreePaths |-> "absent"]

\* what backup_path holds before create_backup: nothing, or the copy an
\* earlier run with the same manifest version left there
StaleBackup ==
    [p \in TreePaths |-> IF p = "conf.d" THEN "dir" ELSE "changed"]

FileActions ==
    {"skip", "replace", "merge_toml", "merge_json", "backup_replace",
     "unknown"}

\* rsync -a without --delete: what the destination holds and the source
\* lacks stays
rsync_keeping_extras(src, dst) ==
    [p \in TreePaths |-> IF src[p] # "absent" THEN src[p] ELSE dst[p]]

\* rsync -a --delete src/ dst/ (1316-1320, 1324-1328)
rsync_delete(src, dst) ==
    [p \in TreePaths |-> IF src[p] # "absent" THEN src[p] ELSE "absent"]

\* target_file.parent.mkdir(parents=True, exist_ok=True) (1170)
mkdir_parent(t, f) ==
    IF f \in InConfD THEN [t EXCEPT !["conf.d"] = "dir"] ELSE t

\* _process_single_file_advanced (1160-1201) on the tree: the tree it leaves
\* and the boolean it returns; a merge writes its target in place and can
\* fail before or after it has written
process_single_file(t, f, action, merge_fails) ==
    LET made == mkdir_parent(t, f)
    IN IF action = "skip" THEN [tree |-> made, ok |-> TRUE]
       ELSE IF action = "replace"
       THEN [tree |-> [made EXCEPT ![f] = "changed"], ok |-> TRUE]
       ELSE IF action \in {"merge_toml", "merge_json"}
       THEN IF merge_fails THEN [tree |-> made, ok |-> FALSE]
            ELSE [tree |-> [made EXCEPT ![f] = "changed"], ok |-> TRUE]
       ELSE IF action = "backup_replace"
       THEN [tree |->
                [made EXCEPT ![BackupFileOf(f)] =
                                 IF made[f] # "absent" THEN made[f] ELSE @,
                             ![f] = "changed"],
             ok |-> TRUE]
       ELSE [tree |-> made, ok |-> FALSE]

TreeAt(stage, processed) == [stage |-> stage, processed |-> processed]

Step(kind) == [kind |-> kind]

TreeOnly ==
    UNCHANGED <<pvars, condVars, verVars, mergeVars, runVars,
                fileVars, rolloutVars, migVars, ruleVars, cmdVars,
                dispVars>>

TreeInit ==
    /\ tree \in DeployedTrees
    /\ backup_copy \in {EmptyTree, StaleBackup}
    /\ tree_at_snapshot = EmptyTree
    /\ tree_pc = TreeAt("snapshot", {})
    /\ last_step = Step("none")
    /\ PipelineIdle /\ CondIdle /\ VerIdle /\ MergeIdle /\ RunsIdle
    /\ FileIdle /\ RolloutIdle /\ MigIdle /\ RuleIdle /\ CmdIdle /\ DispIdle

\* backup_manager.create_backup (1056-1057)
TreeSnapshot ==
    /\ TreeOnly
    /\ tree_pc.stage = "snapshot"
    /\ backup_copy' = rsync_delete(tree, backup_copy)
    /\ tree_at_snapshot' = tree
    /\ tree_pc' = TreeAt("migrations", {})
    /\ last_step' = Step("snapshot")
    /\ UNCHANGED tree

\* the migration scripts run in app_dir (436-438) and write what they like;
\* run_migrations then returns True or False (1062)
TreeMigrations ==
    /\ TreeOnly
    /\ tree_pc.stage = "migrations"
    /\ tree' \in Trees
    /\ \E ok \in BOOLEAN :
          tree_pc' = TreeAt(IF ok THEN "filesync" ELSE "rollback", {})
    /\ last_step' = Step("migrations")
    /\ UNCHANGED <<backup_copy, tree_at_snapshot>>

\* one turn of the loop of _process_files_advanced (1146-1151)
TreeProcessFile ==
    /\ TreeOnly
    /\ tree_pc.stage = "filesync"
    /\ \E f \in SourceFiles \ tree_pc.processed, action \in FileActions,
          merge_fails \in BOOLEAN :
          LET done == process_single_file(tree, f, action, merge_fails)
          IN /\ tree' = done.tree
             /\ tree_pc' =
                   IF done.ok
                   THEN TreeAt("filesync", tree_pc.processed \cup {f})
                   ELSE TreeAt("rollback", tree_pc.processed)
             /\ last_step' = [kind |-> "file", file |-> f, action |-> action]
    /\ UNCHANGED <<backup_copy, tree_at_snapshot>>

\* _process_files_advanced returns True (1153); the post-update hooks write
\* what they like, and they or the tests fail under a rollback policy or the
\* run goes on to its end (1074-1109)
TreePostUpdate ==
    /\ TreeOnly
    /\ tree_pc.stage = "filesync"
    /\ tree_pc.processed = SourceFiles
    /\ tree' \in Trees
    /\ \E rollback \in BOOLEAN :
          tree_pc' = TreeAt(IF rollback THEN "rollback" ELSE "finished",
                            tree_pc.processed)
    /\ last_step' = Step("post_update")
    /\ UNCHANGED <<backup_copy, tree_at_snapshot>>

\* backup_manager.restore_backup(backup_path) returns (1065, 1071, 1079, 1088)
TreeRestore ==
    /\ TreeOnly
    /\ tree_pc.stage = "rollback"
    /\ tree' = rsync_delete(backup_copy, tree)
    /\ tree_pc' = TreeAt("restored", tree_pc.processed)
    /\ last_step' = [kind |-> "restore", before |-> tree]
    /\ UNCHANGED <<backup_copy, tree_at_snapshot>>

\* rsync exits non-zero and restore_backup raises (check=True): each path
\* was brought back or was not
TreeRestoreRaises ==
    /\ TreeOnly
    /\ tree_pc.stage = "rollback"
    /\ tree' \in {t \in Trees :
                    \A p \in TreePaths : t[p] \in {tree[p], backup_copy[p]}}
    /\ tree_pc' = TreeAt("restore_raised", tree_pc.processed)
    /\ last_step' = Step("restore_raised")
    /\ UNCHANGED <<backup_copy, tree_at_snapshot>>

TreeNext ==
    \/ TreeSnapshot
    \/ TreeMigrations
    \/ TreeProcessFile
    \/ TreePostUpdate
    \/ TreeRestore
    \/ TreeRestoreRaises

SpecTree == TreeInit /\ [][TreeNext]_vars

-----------------------------------------------------------------------------
(* The dispatch of _evaluate_condition (lines 253-286) *)

\* what condition.startswith(...) can find at the head of the string
Prefixes ==
    {"file_exists(", "service_running(", "env_var(", "command(", "other"}

\* the condition strings, by what the dispatch and the branches read in
\* them: the head, whether the text current_version occurs anywhere, whether
\* the quoted argument is there, the first of <, > and == the string holds
\* and what follows it
ConditionTexts ==
    [prefix : Prefixes, mentions_version : BOOLEAN,
     arg : {"quoted", "missing"},
     op : VersionOps \cup {"none"},
     target : {<<"1">>, <<"x">>}]

\* the versions _get_current_version can answer
CurrentVersions == {<<"0">>, <<"1">>, <<"1", "0">>}

\* the chain tested with the two prefixes env_var( and command( ahead of
\* the test for current_version
dispatch_prefixes_first(text) ==
    IF text.prefix = "file_exists(" THEN "file_exists"
    ELSE IF text.prefix = "service_running(" THEN "service_running"
    ELSE IF text.prefix = "env_var(" THEN "env_var"
    ELSE IF text.prefix = "command(" THEN "command"
    ELSE IF text.mentions_version THEN "current_version"
    ELSE "unknown"

\* the if/elif chain of lines 257-282
dispatch(text) ==
    IF text.prefix = "file_exists(" THEN "file_exists"
    ELSE IF text.prefix = "service_running(" THEN "service_running"
    ELSE IF text.mentions_version THEN "current_version"
    ELSE IF text.prefix = "env_var(" THEN "env_var"
    ELSE IF text.prefix = "command(" THEN "command"
    ELSE "unknown"

\* _evaluate_version_condition (304-325) on the string: without <, > or ==
\* it returns False (321)
version_branch(text, cur) ==
    IF text.op = "none" THEN FALSE
    ELSE evaluate_version_condition(cur, [op |-> text.op,
                                          target |-> text.target])

DispReturn(value) == [kind |-> "returned", value |-> value]

DispOnly ==
    UNCHANGED <<pvars, condVars, verVars, mergeVars, runVars,
                fileVars, rolloutVars, migVars, ruleVars, cmdVars, treeVars>>

DispInit ==
    /\ cond_text \in ConditionTexts
    /\ branch = "none"
    /\ calls = {}
    /\ disp_ret = NotReturned
    /\ PipelineIdle /\ CondIdle /\ VerIdle /\ MergeIdle /\ RunsIdle
    /\ FileIdle /\ RolloutIdle /\ MigIdle /\ RuleIdle /\ CmdIdle /\ TreeIdle

\* lines 257-282: the first test of the chain that holds
Dispatch ==
    /\ DispOnly
    /\ branch = "none"
    /\ branch' = dispatch(cond_text)
    /\ UNCHANGED <<cond_text, calls, disp_ret>>

\* what the body of a branch returns when the system answers `ans`
Probe(form, ans) ==
    EvaluateCondition([form |-> form, arg |-> cond_text.arg], ans)

\* lines 257-259
FileExistsBranch ==
    /\ DispOnly
    /\ branch = "file_exists"
    /\ disp_ret = NotReturned
    /\ calls' = calls \cup {"Path.exists"}
    /\ \E ans \in Answers : disp_ret' = DispReturn(Probe("file_exists", ans))
    /\ UNCHANGED <<cond_text, branch>>

\* lines 262-264
ServiceRunningBranch ==
    /\ DispOnly
    /\ branch = "service_running"
    /\ disp_ret = NotReturned
    /\ calls' = calls \cup {"systemctl"}
    /\ \E ans \in Answers : disp_ret' = DispReturn(Probe("service_running", ans))
    /\ UNCHANGED <<cond_text, branch>>

\* lines 271-272
EnvVarBranch ==
    /\ DispOnly
    /\ branch = "env_var"
    /\ disp_ret = NotReturned
    /\ calls' = calls \cup {"_evaluate_env_condition"}
    /\ \E ans \in Answers : disp_ret' = DispReturn(Probe("env_var", ans))
    /\ UNCHANGED <<cond_text, branch>>

\* lines 275-278
CommandBranch ==
    /\ DispOnly
    /\ branch = "command"
    /\ disp_ret = NotReturned
    /\ calls' = calls \cup {"subprocess.run"}
    /\ \E ans \in Answers : disp_ret' = DispReturn(Probe("command", ans))
    /\ UNCHANGED <<cond_text, branch>>

\* lines 267-268
VersionBranch ==
    /\ DispOnly
    /\ branch = "current_version"
    /\ disp_ret = NotReturned
    /\ calls' = calls \cup {"_evaluate_version_condition"}
    /\ \E cur \in CurrentVersions :
          disp_ret' = DispReturn(version_branch(cond_text, cur))
    /\ UNCHANGED <<cond_text, branch>>

\* lines 280-282
UnknownBranch ==
    /\ DispOnly
    /\ branch = "unknown"
    /\ disp_ret = NotReturned
    /\ disp_ret' = DispReturn(FALSE)
    /\ UNCHANGED <<cond_text, branch, calls>>

DispNext ==
    \/ Dispatch
    \/ FileExistsBranch
    \/ ServiceRunningBranch
    \/ VersionBranch
    \/ EnvVarBranch
    \/ CommandBranch
    \/ UnknownBranch

SpecDispatch == DispInit /\ [][DispNext]_vars

-----------------------------------------------------------------------------

Next ==
    \/ LoadManifest
    \/ RolloutGate
    \/ ConditionalGate
    \/ RequirementsCheck
    \/ SecurityValidate
    \/ PreHooks
    \/ CreateBackup
    \/ Migrations
    \/ FileSync
    \/ PostHooks
    \/ PostTests
    \/ Cleanup
    \/ NotifySuccess
    \/ ExceptHandler

Spec == Init /\ [][Next]_vars

-----------------------------------------------------------------------------
(* Vocabulary of the properties *)

\* the fixed stage order of the pipeline
StageOrder ==
    <<"rollout", "conditional", "requirements", "security", "prehooks",
      "snapshot", "migrations", "filesync", "posthooks", "posttests",
      "cleanup", "notify">>

\* position of a stage in the fixed order
Pos(stage) == CHOOSE i \in 1..Len(StageOrder) : StageOrder[i] = stage

\* the stage's body was executed in this run
Did(stage) == \E i \in 1..Len(trace) : trace[i].stage = stage

\* the stage was executed and ended with result res
Ended(stage, res) == \E i \in 1..Len(trace) : trace[i] = Ran(stage, res)

\* number of times the stage's body was executed
Times(stage) == Cardinality({i \in 1..Len(trace) : trace[i].stage = stage})

\* no stage that comes after `stage` in the fixed order was executed
NothingAfter(stage) ==
    \A i \in 1..Len(trace) : Pos(trace[i].stage) <= Pos(stage)

PreSnapshotStages ==
    {"rollout", "conditional", "requirements", "security", "prehooks"}

\* the run is past the gates, the checks and the pre-hooks, and none stopped it
PassedGates ==
    /\ manifest.bound
    /\ pc \notin {"load"} \cup PreSnapshotStages
    /\ \A i \in 1..Len(trace) :
          trace[i].stage \in PreSnapshotStages => trace[i].res = "ok"

\* terminal outcomes of the run, as the caller sees them
Finished == pc = "done"
IsFAILED == result.kind = "returned" /\ ~result.ok
IsSUCCESS == result = Returned(TRUE, "version")

\* a gate, a hard check or a pre-hook stopped the run
StoppedBeforeSnapshot ==
    \/ Ended("rollout", "not_selected")
    \/ Ended("conditional", "skip_update")
    \/ Ended("conditional", "manual")
    \/ Ended("requirements", "fail")
    \/ Ended("security", "checksum_fail")
    \/ Ended("security", "file_fail")
    \/ Ended("prehooks", "fail")

MutationFailed == Ended("migrations", "fail") \/ Ended("filesync", "fail")

\* a post-update failure whose rollback trigger the policy lists
PolicyRollbackDue ==
    \/ /\ Ended("posthooks", "fail")
       /\ "service_start_fail" \in manifest.auto_rollback_on
    \/ /\ Ended("posttests", "fail")
       /\ "health_check_fail" \in manifest.auto_rollback_on

\* a post-update failure, none of which the policy lists for rollback
UngatedPostFailure ==
    /\ Ended("posthooks", "fail") \/ Ended("posttests", "fail")
    /\ ~PolicyRollbackDue

\* what a run reports once the restore was invoked: the rolled-back failure
\* `msgs` when restore_backup returned, the handler's failure when it raised
RestoreOutcome(msgs) ==
    /\ restoreCalls = 1
    /\ pc \in {"handler", "done"}
    /\ Finished =>
          IF fault = "restore"
          THEN ~restored /\ result = Returned(FALSE, "Update failed")
          ELSE restored /\ IsFAILED /\ result.msg \in msgs

-----------------------------------------------------------------------------
(* C1 *)

\* C1, as stated: if a migration script fails or a file fails to process in
\* file-sync, the snapshot is restored, the run returns FAILED (rolled back)
\* and neither file-sync (after a migration failure), post-update hooks nor
\* post-update tests run, whatever auto_rollback_on contains.
C1_AsStated ==
    (Finished /\ MutationFailed) =>
        /\ restored
        /\ IsFAILED
        /\ result.msg \in {"Migration scripts failed", "File processing failed"}
        /\ ~Did("posthooks") /\ ~Did("posttests")
        /\ Ended("migrations", "fail") => ~Did("filesync")

\* C1, amended: if a migration script fails or a file fails to process in
\* file-sync, restore_backup is invoked exactly once and the run ends FAILED
\* without file-sync (after a migration failure), post-update hooks,
\* post-update tests or cleanup running, whatever auto_rollback_on contains;
\* the snapshot is restored and the rolled-back failure returned unless
\* restore_backup itself raises, in which case the run returns the handler's
\* FAILED outcome with the snapshot not restored.
C1_RollbackOnMutationFailure ==
    MutationFailed =>
        /\ RestoreOutcome({"Migration scripts failed", "File processing failed"})
        /\ ~Did("posthooks") /\ ~Did("posttests") /\ ~Did("cleanup")
        /\ Ended("migrations", "fail") => (~Did("filesync") /\ filesWritten = 0)
        /\ snapshot

\* C1 witness: a file-sync failure under an empty auto_rollback_on, with
\* post-update hooks and tests declared, ended in a completed restore.
C1_Witness ==
    /\ Finished
    /\ Ended("filesync", "fail")
    /\ manifest.auto_rollback_on = {}
    /\ manifest.post_update /\ manifest.post_update_tests
    /\ restored
    /\ result = Returned(FALSE, "File processing failed")

-----------------------------------------------------------------------------
(* C2 *)

\* C2: if post-update hooks fail without service_start_fail listed, or
\* post-update tests fail without health_check_fail listed (and nothing else
\* rolls the run back), no restore is performed, cleanup and notify still run
\* and the run ends FAILED(rolled_back=false): it is never reported as SUCCESS
\* and never sends the on_success notifications.
C2_UngatedFailureIsFailed ==
    (Finished /\ fault = "none" /\ UngatedPostFailure) =>
        /\ restoreCalls = 0
        /\ ~restored
        /\ manifest.cleanup => Did("cleanup")
        /\ IsFAILED
        /\ ~IsSUCCESS
        /\ \A i \in 1..Len(notified) : notified[i] # "on_success"

-----------------------------------------------------------------------------
(* C3 *)

\* C3, as stated: if post-update hooks fail with service_start_fail listed, or
\* post-update tests fail with health_check_fail listed, the snapshot is
\* restored and the run returns FAILED(rolled_back=true); a rollback after a
\* post-hook or post-test failure happens only when the corresponding trigger
\* is listed.
C3_AsStated ==
    /\ (Finished /\ PolicyRollbackDue) =>
          /\ restored
          /\ IsFAILED
          /\ result.msg \in {"Post-update hooks failed, rolled back",
                              "Health checks failed, rolled back"}
    /\ (restoreCalls > 0 /\ ~MutationFailed) => PolicyRollbackDue

\* C3, amended: if post-update hooks fail with service_start_fail listed, or
\* post-update tests fail with health_check_fail listed, restore_backup is
\* invoked exactly once and the run ends FAILED; the snapshot is restored and
\* the rolled-back failure returned unless restore_backup itself raises, in
\* which case the run returns the handler's FAILED outcome with the snapshot
\* not restored.  A restore after a post-hook or post-test failure is invoked
\* only when the corresponding trigger is listed.
C3_PolicyGatedRollback ==
    /\ PolicyRollbackDue =>
          RestoreOutcome({"Post-update hooks failed, rolled back",
                          "Health checks failed, rolled back"})
    /\ Ended("posthooks", "fail") /\ pc \notin {"posthooks"} /\ ~Did("posttests") =>
          (restoreCalls > 0 <=> "service_start_fail" \in manifest.auto_rollback_on)
    /\ (restoreCalls > 0 /\ ~MutationFailed) => PolicyRollbackDue

\* C3 witness: failed post-update tests with health_check_fail listed ended in
\* a completed restore.
C3_Witness ==
    /\ Finished
    /\ Ended("posttests", "fail")
    /\ "health_check_fail" \in manifest.auto_rollback_on
    /\ restored
    /\ result = Returned(FALSE, "Health checks failed, rolled back")

-----------------------------------------------------------------------------
(* C4 *)

\* C4, as stated: every run that passes the rollout gate, the conditional
\* gate, the requirements check, security validation and the pre-update hooks
\* creates a snapshot exactly once, also when the manifest declares no
\* migrations.
C4_AsStated ==
    (PassedGates /\ pc # "snapshot") => (snapshot /\ snapshots = 1)

\* the snapshot stage comes after the pre-hooks and before the first migration
\* script and the first file write
SnapshotInPlace ==
    \A i, j \in 1..Len(trace) :
        /\ (trace[i].stage = "prehooks" /\ trace[j].stage = "snapshot") => i < j
        /\ (trace[i].stage = "snapshot"
              /\ trace[j].stage \in {"migrations", "filesync"}) => i < j

\* C4, amended: every run that passes the rollout gate, the conditional gate,
\* the requirements check, security validation and the pre-update hooks runs
\* the snapshot stage exactly once, after the pre-hooks and before the first
\* migration script or file write, also when the manifest declares no
\* migrations; the stage creates exactly one snapshot unless the snapshot
\* transport itself raises, in which case no snapshot exists and the run ends
\* FAILED with no migration run and no file written.  No run ever creates a
\* second snapshot, and no migration or file write happens without one.
C4_SnapshotOnce ==
    /\ snapshots <= 1
    /\ Times("snapshot") <= 1
    /\ SnapshotInPlace
    /\ (PassedGates /\ pc # "snapshot") =>
          /\ Times("snapshot") = 1
          /\ IF Ended("snapshot", "raise")
             THEN /\ ~snapshot /\ snapshots = 0
                  /\ ~Did("migrations") /\ ~Did("filesync")
                  /\ scriptsRun = 0 /\ filesWritten = 0
                  /\ Finished => IsFAILED
             ELSE snapshot /\ snapshots = 1
    /\ (Did("migrations") \/ Did("filesync") \/ scriptsRun > 0 \/ filesWritten > 0
          \/ pc \in {"migrations", "filesync"}) => (snapshot /\ snapshots = 1)

\* C4 witness: a run whose manifest declares pre-hooks and no migrations has
\* written files after creating its one snapshot.
C4_Witness ==
    /\ Finished
    /\ manifest.bound /\ manifest.migrations = 0
    /\ Ended("prehooks", "ok")
    /\ snapshot /\ snapshots = 1
    /\ filesWritten > 0
    /\ IsSUCCESS

-----------------------------------------------------------------------------
(* C5 *)

\* C5: in every reachable state, a restore has been invoked only if the
\* snapshot has been created in this run, and the snapshot exists if and only
\* if the run has passed all the stages that precede the first mutation (the
\* gates, the checks, the pre-hooks and the snapshot stage itself).
C5_RestoreNeedsSnapshot ==
    /\ restoreCalls > 0 => (snapshot /\ snapshots = 1)
    /\ restored => restoreCalls > 0
    /\ snapshot <=>
          (PassedGates /\ pc # "snapshot" /\ ~Ended("snapshot", "raise"))

\* C5 witness: a restore was invoked, with the snapshot in place.
C5_Witness ==
    /\ restoreCalls = 1
    /\ snapshot
    /\ Ended("migrations", "fail")

-----------------------------------------------------------------------------
(* C6 *)

\* C6: when the rollout gate, the conditional gate (skip_update or
\* require_manual_intervention), a failed requirements check, failed security
\* validation or a failed pre-update hook stops the run, the run ends at once:
\* no later stage executes, no snapshot is created, no migration runs, no
\* file is written and no restore is attempted.
C6_GateStopsRun ==
    StoppedBeforeSnapshot =>
        /\ Finished
        /\ result.kind = "returned"
        /\ trace[Len(trace)].stage \in PreSnapshotStages
        /\ trace[Len(trace)].res \notin {"ok", "raise"}
        /\ \A i \in 1..(Len(trace) - 1) : trace[i].res = "ok"
        /\ NothingAfter("prehooks")
        /\ ~snapshot /\ snapshots = 0
        /\ scriptsRun = 0 /\ filesWritten = 0
        /\ restoreCalls = 0 /\ ~restored

\* C6 witness: a failed pre-update hook ended the run after the gates and
\* checks had all passed.
C6_Witness ==
    /\ Finished
    /\ Ended("prehooks", "fail")
    /\ Len(trace) = 5
    /\ result = Returned(FALSE, "Pre-update hooks failed")

-----------------------------------------------------------------------------
(* C7 *)

\* C7: the stages that execute do so in the fixed order rollout-gate,
\* conditional-gate, requirements-check, security-validate, pre-hooks,
\* snapshot, migrations, file-sync, post-hooks, post-tests, cleanup, notify;
\* each executes at most once per run, no earlier stage is executed again
\* after a failure, and a failure causes at most one restore.
C7_FixedOrder ==
    /\ \A i, j \in 1..Len(trace) :
          i < j => Pos(trace[i].stage) < Pos(trace[j].stage)
    /\ \A i \in 1..Len(trace) : Times(trace[i].stage) = 1
    /\ restoreCalls <= 1

\* C7 witness: a run executed all twelve stages, post-update hooks and tests
\* having failed on the way.
C7_Witness ==
    /\ Finished
    /\ Len(trace) = Len(StageOrder)
    /\ Ended("posthooks", "fail")
    /\ Ended("posttests", "fail")

-----------------------------------------------------------------------------
(* C8 *)

\* C8: if an unexpected exception is raised in a stage after the snapshot has
\* been created, the run ends FAILED, a restore from the snapshot is
\* attempted and the on_failure notifications are sent.
C8_FaultAfterSnapshotRestores ==
    (Finished /\ snapshot /\ fault # "none") =>
        /\ IsFAILED
        /\ restoreCalls >= 1
        /\ manifest.on_failure => notified = <<"on_failure">>

-----------------------------------------------------------------------------
(* C9 *)

\* C9: if update-manifest.yaml exists but cannot be loaded, the run ends with
\* a FAILED outcome returned to the caller before any gate runs, with no
\* snapshot and no mutation; the load error never leaves
\* apply_updates_complete as an exception.
C9_LoadErrorReturnsFailed ==
    (Finished /\ fault = "load") =>
        /\ result.kind = "returned"
        /\ IsFAILED
        /\ trace = <<>>
        /\ ~snapshot /\ scriptsRun = 0 /\ filesWritten = 0

-----------------------------------------------------------------------------
(* C10 *)

\* C10: every run that reaches a terminal outcome runs notify exactly once for
\* that outcome: the on_success notifications for SUCCESS, the on_failure
\* notifications for every FAILED outcome (manual intervention, hard checks,
\* pre-hooks and rolled-back failures included).
C10_NotifyOncePerOutcome ==
    (Finished /\ result.kind = "returned") =>
        /\ (IsSUCCESS /\ manifest.on_success) => notified = <<"on_success">>
        /\ (IsFAILED /\ result.msg # "Update skipped" /\ manifest.on_failure) =>
              notified = <<"on_failure">>

-----------------------------------------------------------------------------
(* C11 *)

\* the tag of the returned Tuple[bool, str]: its first component
SuccessTag == TRUE
FailedTag == FALSE

\* C11: a run stopped by the rollout gate and a run stopped by a skip_update
\* conditional both end with an outcome that is distinguishable from SUCCESS
\* and from FAILED, while a run stopped by require_manual_intervention ends
\* as FAILED.
C11_ThreeOutcomeKinds ==
    (Finished /\ result.kind = "returned") =>
        /\ Ended("rollout", "not_selected") => result.ok # SuccessTag
        /\ Ended("conditional", "skip_update") => result.ok # FailedTag
        /\ Ended("conditional", "manual") => result.ok = FailedTag

-----------------------------------------------------------------------------
(* C12 *)

\* C12: a failing cleanup never changes the run's outcome and never triggers
\* a restore: the run goes on to notify and returns SUCCESS, with the
\* on_success notifications sent when configured.
C12_CleanupNeverFatal ==
    Ended("cleanup", "fail") =>
        /\ pc \in {"notify", "done"}
        /\ restoreCalls = 0 /\ ~restored
        /\ fault = "none"
        /\ Finished =>
              /\ IsSUCCESS
              /\ manifest.on_success => notified = <<"on_success">>

C12_Witness ==
    /\ Finished /\ IsSUCCESS
    /\ Ended("cleanup", "fail")
    /\ Ended("posttests", "ok") /\ Ended("filesync", "ok")
    /\ notified = <<"on_success">>

-----------------------------------------------------------------------------
(* C14 *)

StopActions == {"skip_update", "require_manual_intervention"}

\* rule j's condition was evaluated to true and its action is a stopping one
Stopped(j) ==
    /\ j \in 1..Len(evaluated)
    /\ evaluated[j].value
    /\ conditionals[j].action \in StopActions

CondReturned == cond_ret.kind = "returned"

\* C14: conditions are evaluated strictly in list order, and the evaluation
\* stops at the first rule whose condition is true and whose action is
\* skip_update or require_manual_intervention: the result carries that rule's
\* message (and its manual_steps for manual intervention) and no later rule's
\* condition is evaluated.
C14_ShortCircuit ==
    /\ \A j \in 1..Len(evaluated) : evaluated[j].rule = j
    /\ Len(evaluated) <= Len(conditionals)
    /\ \A j \in 1..Len(evaluated) :
          Stopped(j) =>
            /\ Len(evaluated) = j
            /\ CondReturned /\ ~cond_ret.should_continue
            /\ cond_ret.message = conditionals[j].message
            /\ cond_ret.prefix =
                  (IF conditionals[j].action = "skip_update"
                   THEN "Update skipped" ELSE "Manual intervention required")
            /\ cond_ret.manual_steps =
                  (IF conditionals[j].action = "skip_update"
                   THEN <<>> ELSE conditionals[j].manual_steps)

\* a manual-intervention rule stopped the evaluation in front of a rule with
\* a command(...) condition, which was not evaluated
C14_Witness ==
    /\ Len(conditionals) = 2
    /\ Len(evaluated) = 1
    /\ Stopped(1)
    /\ conditionals[1].action = "require_manual_intervention"
    /\ conditionals[2].condition.form = "command"
    /\ cond_ret.manual_steps = <<1>>

-----------------------------------------------------------------------------
(* C15 *)

\* the condition has an unrecognized form, lacks its argument, or its probe
\* raised
BadCondition(j) ==
    \/ conditionals[j].condition.form = "unknown"
    \/ conditionals[j].condition.arg = "missing"
    \/ evaluated[j].ans = "error"

\* C15: a condition of unrecognized form, and any condition whose evaluation
\* fails (missing argument, failing probe), evaluates to false, so that its
\* rule has no effect and never stops the run.
C15_BadConditionIsFalse ==
    \A j \in 1..Len(evaluated) :
        BadCondition(j) => ~evaluated[j].value /\ ~Stopped(j)

-----------------------------------------------------------------------------
(* C17 *)

\* C17: evaluate_conditionals returns should_continue = true if and only if no
\* rule whose condition is true has a stopping action; a rule whose condition
\* is false, or whose condition is true and whose action is continue or warn,
\* leaves the result open and the next rule is evaluated.
C17_ProceedIffNoStop ==
    /\ CondReturned =>
          /\ cond_ret.should_continue <=>
                ~(\E j \in 1..Len(conditionals) : Stopped(j))
          /\ cond_ret.should_continue =>
                /\ Len(evaluated) = Len(conditionals)
                /\ cond_ret = CondReturn(TRUE, "", "", <<>>)
    /\ \A j \in 1..Len(evaluated) :
          ~Stopped(j) =>
             \/ j < Len(evaluated)
             \/ ci = j + 1 /\ (CondReturned => cond_ret.should_continue)

\* PROCEED after a rule with a false condition and a rule that only warned
C17_Witness ==
    /\ CondReturned /\ cond_ret.should_continue
    /\ Len(evaluated) = 2
    /\ ~evaluated[1].value /\ conditionals[1].action = "skip_update"
    /\ evaluated[2].value /\ conditionals[2].action = "warn"

-----------------------------------------------------------------------------
(* C16 *)

\* the version with its trailing zero components removed
RECURSIVE Trimmed(_)
Trimmed(t) ==
    IF Len(t) > 0 /\ t[Len(t)] = 0 THEN Trimmed(SubSeq(t, 1, Len(t) - 1))
    ELSE t

\* C16: versions are compared as dotted-integer tuples with the shorter tuple
\* zero-padded: versions that differ only in trailing .0 components compare
\* equal, so == holds between them and neither < nor > does.
C16_ZeroPaddedComparison ==
    (/\ ver_ret # NotReturned
     /\ ~Unparsable(current_version) /\ ~Unparsable(condition.target)
     /\ Trimmed(version_tuple(current_version)) =
           Trimmed(version_tuple(condition.target)))
    => (ver_ret.value <=> condition.op = "==")

-----------------------------------------------------------------------------
(* C18 *)

\* key-paths of the nested mappings
KeyPaths == {<<k>> : k \in Keys} \cup {<<k, l>> : k \in Keys, l \in Keys}

\* the key-path exists in the mapping
RECURSIVE Has(_, _)
Has(m, p) ==
    /\ p[1] \in DOMAIN m
    /\ \/ Len(p) = 1
       \/ IsDict(m[p[1]]) /\ Has(m[p[1]].d, Tail(p))

\* the value at a key-path that exists
RECURSIVE Get(_, _)
Get(m, p) == IF Len(p) = 1 THEN m[p[1]] ELSE Get(m[p[1]].d, Tail(p))

\* old holds a scalar at a proper prefix of the key-path: a conflict above the
\* path, which old wins
ShadowedByOld(p) ==
    /\ Len(p) = 2
    /\ Has(old_section, <<p[1]>>)
    /\ ~IsDict(old_section[p[1]])

\* the key-path exists in both with a mapping on each side
MergedBelow(p) ==
    /\ Has(old_section, p) /\ Has(new_section, p)
    /\ IsDict(Get(old_section, p)) /\ IsDict(Get(new_section, p))

-----------------------------------------------------------------------------
(* C19 *)

-----------------------------------------------------------------------------
(* C20 *)

\* C20: the merge_smart result equals new, except that every top-level key of
\* preserve_keys that old has carries old's value verbatim; a preserve key
\* that old lacks leaves new's value, or the key's absence, as it is.
C20_MergeSmart ==
    merged.strategy = "merge_smart" =>
        \A k \in Keys :
            IF k \in preserve_keys /\ k \in DOMAIN old_section
            THEN k \in DOMAIN merged.value
                 /\ merged.value[k] = old_section[k]
            ELSE IF k \in DOMAIN new_section
            THEN k \in DOMAIN merged.value
                 /\ merged.value[k] = new_section[k]
            ELSE k \notin DOMAIN merged.value

\* a preserved key with a mapping on both sides that differ, and a preserve
\* key that neither old nor new has
C20_Witness ==
    /\ merged.strategy = "merge_smart"
    /\ preserve_keys = {"a", "b"}
    /\ MergedBelow(<<"a">>)
    /\ old_section["a"] # new_section["a"]
    /\ merged.value["a"] = old_section["a"]
    /\ "b" \notin DOMAIN old_section /\ "b" \notin DOMAIN new_section

-----------------------------------------------------------------------------
(* C13 *)

\* the run is between its snapshot and its terminal outcome
Mutating(r) == run_pc[r] \in {"filesync", "verify"}

\* C13: at most one run is between its snapshot and its terminal outcome on
\* one installation, and a restore never reinstates a tree that holds files
\* written by another run's file-sync.
C13_OneRunAtATime ==
    /\ \A r1, r2 \in Runs : (Mutating(r1) /\ Mutating(r2)) => r1 = r2
    /\ \A r \in Runs : run_pc[r] = "failed" => app_tree = Deployed

-----------------------------------------------------------------------------
(* C22 *)

\* C22: the merges are pure: after a merge under preserve_user, update_only
\* or merge_smart the objects passed as old and new, nested mappings
\* included, hold what they held at the call.
C22_MergeLeavesInputs ==
    merged # NotMerged =>
        /\ old_after = old_section
        /\ new_after = new_section

-----------------------------------------------------------------------------
(* C21 *)

\* the merge returned, having loaded old and written the target
FileMerged == merge_call # NoCall /\ file_ok = TRUE

\* the call merged the whole document under the file rule's strategy
WholeFile ==
    \/ merge_call.via = "merge_json"
    \/ merge_call.via = "merge_toml" /\ "sections" \notin DOMAIN merge_call.entry

\* C21: under strategy replace the merged document is exactly new, whatever
\* old holds: for a whole file merged under replace, and for every section
\* that a section-scoped merge handles under replace.
C21_ReplaceIsNew ==
    FileMerged =>
        /\ (WholeFile /\ merge_call.rule_strategy = "replace") =>
              target_file = source_file
        /\ merge_call.via = "sections" =>
              \A k \in DOMAIN source_file.doc :
                  (/\ k \in DOMAIN merge_call.merge_strategies
                   /\ SectionStrategy(merge_call.merge_strategies[k]) = "replace")
                  => (/\ k \in DOMAIN target_file.doc
                      /\ target_file.doc[k] = source_file.doc[k])

\* a whole file merged under replace whose old document has a section that
\* new lacks and a value that new changes
C21_Witness ==
    /\ FileMerged
    /\ merge_call.via = "merge_toml" /\ WholeFile
    /\ merge_call.rule_strategy = "replace"
    /\ DOMAIN merge_call.old_config = {"a", "b"}
    /\ DOMAIN source_file.doc = {"a"}
    /\ merge_call.old_config["a"] # source_file.doc["a"]
    /\ DOMAIN merge_call.old_config["a"].d = DOMAIN source_file.doc["a"].d
    /\ target_file = source_file

-----------------------------------------------------------------------------
(* C23 *)

\* C23: when the merge_strategies entry of a merge_toml file names
\* per-section strategies, the merged document holds every named section
\* merged under its own strategy and every other section as new has it.
C23_NamedSectionsMerged ==
    (/\ FileMerged
     /\ merge_call.via = "merge_toml"
     /\ "sections" \in DOMAIN merge_call.entry) =>
        \A k \in DOMAIN source_file.doc :
            /\ k \in DOMAIN target_file.doc
            /\ IF k \in DOMAIN merge_call.entry.sections
               THEN SectionStrategy(merge_call.entry.sections[k])
                      \in KnownStrategies =>
                        target_file.doc[k] =
                          apply_section_strategies(merge_call.old_config,
                              source_file.doc, merge_call.entry.sections)[k]
               ELSE target_file.doc[k] = source_file.doc[k]

-----------------------------------------------------------------------------
(* C24 *)

\* the call names a strategy that is none of the four
NamesUnknownStrategy ==
    \/ WholeFile /\ merge_call.rule_strategy = "bogus"
    \/ /\ merge_call.via = "sections"
       /\ \E k \in DOMAIN merge_call.merge_strategies :
             SectionStrategy(merge_call.merge_strategies[k]) = "bogus"
    \/ /\ merge_call.via = "merge_toml"
       /\ "sections" \in DOMAIN merge_call.entry
       /\ \E k \in DOMAIN merge_call.entry.sections :
             SectionStrategy(merge_call.entry.sections[k]) = "bogus"

\* C24: a strategy name outside replace, preserve_user, update_only and
\* merge_smart, for a file or for a section, makes the merge of the file
\* fail; it is never treated as a no-op or as replace.
C24_UnknownStrategyFails ==
    (merge_call # NoCall /\ NamesUnknownStrategy) => file_ok = FALSE

-----------------------------------------------------------------------------
(* C25 *)

\* C25: if the process dies while the merged document is being written, the
\* target holds its complete previous content or the complete merged
\* document, never an empty or partially written one.
C25_CrashLeavesWholeFile ==
    write_pc = "crashed" =>
        \/ target_file = merge_call.previous
        \/ target_file = FileWith(to_write)

-----------------------------------------------------------------------------
(* C26 *)

\* what the claim calls a match of the stage
StageMatches(stage, h) ==
    IF stage.criteria = "" THEN h < stage.percentage
    ELSE matches_criteria(stage, h)

\* the positions of the stages that match
MatchingStages(h) ==
    {k \in 1..Len(rollout_config.stages) :
        StageMatches(rollout_config.stages[k], h)}

\* the example of the claim: canary 10 and ga 100, without criteria or wait
CanaryThenGa ==
    /\ rollout_config.strategy = "staged"
    /\ rollout_config.stages =
          <<[percentage |-> 10, criteria |-> "", wait_hours |-> 0,
             active_hours |-> 0],
            [percentage |-> 100, criteria |-> "", wait_hours |-> 0,
             active_hours |-> 0]>>

\* C26: with strategy staged the stages are scanned in declared order with
\* h = hash(host_id) mod 100; the first stage that matches (h < percentage for
\* a stage without criteria) decides the result and no later stage is looked
\* at, and no stage matching means not selected; with [canary 10, ga 100] and
\* no wait, h = 5 is selected in canary and h = 50 is selected in ga.
C26_FirstMatchDecides ==
    (decision # NotDecided /\ rollout_config.strategy = "staged")
    => /\ IF MatchingStages(decision.h) = {}
          THEN /\ ~decision.ok
               /\ decision.reason = "not_selected"
          ELSE LET first == CHOOSE k \in MatchingStages(decision.h) :
                               \A n \in MatchingStages(decision.h) : k <= n
               IN /\ decision.stage = StageNames[first]
                  /\ decision.examined = first
                  /\ decision.reason \in {"updating", "waiting"}
       /\ (CanaryThenGa /\ decision.h = 5)
             => (decision.ok /\ decision.stage = "canary")
       /\ (CanaryThenGa /\ decision.h = 50)
             => (decision.ok /\ decision.stage = "ga")

\* a host with h = 50 went past canary 10 and was selected in ga 100
C26_Witness ==
    /\ CanaryThenGa
    /\ decision # NotDecided
    /\ decision.h = 50
    /\ decision.ok
    /\ decision.stage = "ga"
    /\ decision.examined = 2

-----------------------------------------------------------------------------
(* C27 *)

\* C27: two calls of should_update_in_stage for the same host and the same
\* rollout mapping return the same decision and reason, also when the calls
\* are made by different runs of the updater.
C27_SameDecisionAcrossRuns ==
    (decision # NotDecided /\ earlier # NotDecided)
    => /\ decision.ok = earlier.ok
       /\ decision.reason = earlier.reason
       /\ decision.stage = earlier.stage

-----------------------------------------------------------------------------
(* C28 *)

\* the wait of the stage that decided has not elapsed
WaitNotElapsed(stage) ==
    stage.wait_hours > 0 /\ stage.active_hours < stage.wait_hours

\* C28: a matched stage whose wait_hours (> 0) has not elapsed since the
\* stage became active gives (false, waiting for the stage); a matched stage
\* gives true only when wait_hours is 0 or the wait has elapsed.
C28_WaitsForStage ==
    (/\ decision # NotDecided
     /\ rollout_config.strategy = "staged"
     /\ decision.examined \in 1..Len(rollout_config.stages)
     /\ decision.stage # "")
    => LET stage == rollout_config.stages[decision.examined]
       IN IF WaitNotElapsed(stage)
          THEN ~decision.ok /\ decision.reason = "waiting"
          ELSE decision.ok /\ decision.reason = "updating"

-----------------------------------------------------------------------------
(* C29 *)

\* t1 < t2 with the shorter tuple zero-padded
PaddedLess(t1, t2) == TupleLess(Trimmed(t1), Trimmed(t2))

\* current < m <= target under dotted-integer comparison
InMigrationRange(m) ==
    LET c == version_tuple(installed_version)
        t == version_tuple(target_version)
    IN /\ PaddedLess(c, version_tuple(m))
       /\ ~PaddedLess(t, version_tuple(m))

\* the positions of scripts_executed that ran a script of version m
RunsOf(m, j) ==
    {i \in 1..Len(scripts_executed) :
        scripts_executed[i].version = m /\ scripts_executed[i].script = j}

\* C29: the scripts of a migration version m run exactly once if and only if
\* current < m <= target under dotted-integer comparison; the selected
\* versions run in ascending order; after the first failing script no further
\* script runs and the call reports failure.
C29_MigrationSelection ==
    (/\ migrations_ok.kind = "returned"
     /\ ~Unparsable(installed_version) /\ ~Unparsable(target_version)
     /\ \A m \in DOMAIN migrations : ~Unparsable(m))
    => /\ (\A i \in 1..Len(scripts_executed) :
              scripts_executed[i].outcome = "ok")
          => /\ migrations_ok.value
             /\ \A m \in DOMAIN migrations :
                  \A j \in 1..Len(migrations[m]) :
                     Cardinality(RunsOf(m, j)) =
                        IF InMigrationRange(m) THEN 1 ELSE 0
       /\ \A i, k \in 1..Len(scripts_executed) :
             i < k => ~PaddedLess(version_tuple(scripts_executed[k].version),
                                  version_tuple(scripts_executed[i].version))
       /\ \A i \in 1..Len(scripts_executed) :
             scripts_executed[i].outcome = "fail"
                => i = Len(scripts_executed) /\ ~migrations_ok.value

-----------------------------------------------------------------------------
(* C30 *)

\* the glob matches the path: every '*' stands for some run of characters
RECURSIVE GlobMatches(_, _)
GlobMatches(path, pattern) ==
    IF pattern = <<>> THEN path = <<>>
    ELSE IF Head(pattern) = "*"
    THEN \E k \in 0..Len(path) :
            GlobMatches(SubSeq(path, k + 1, Len(path)), Tail(pattern))
    ELSE /\ path # <<>>
         /\ Head(path) = Head(pattern)
         /\ GlobMatches(Tail(path), Tail(pattern))

\* the positions of the rules whose key is the path itself
ExactRules == {i \in 1..Len(files) : files[i].pattern = file_path}

\* the positions of the rules whose glob matches the path
GlobRules == {i \in 1..Len(files) : GlobMatches(file_path, files[i].pattern)}

\* the rule the claim resolves the path to
ResolvedConfig ==
    IF ExactRules # {} THEN files[CHOOSE i \in ExactRules : TRUE].config
    ELSE IF GlobRules # {}
    THEN files[CHOOSE i \in GlobRules : \A k \in GlobRules : i <= k].config
    ELSE [action |-> "replace"]

\* C30: a path resolves to the rule of its exact key if there is one,
\* otherwise to the first rule in manifest order whose glob matches,
\* otherwise to the default action replace; a pattern without wildcard
\* matches only the path equal to it; get_file_action and get_file_config
\* resolve the path to the same rule.
C30_RuleResolution ==
    /\ file_config.kind = "returned" => file_config.value = ResolvedConfig
    /\ file_action.kind = "returned"
          => file_action.value =
                IF "action" \in DOMAIN ResolvedConfig
                THEN ResolvedConfig.action ELSE "replace"
    /\ \A i \in 1..Len(files) :
          (~HasStar(files[i].pattern) /\ files[i].pattern # file_path)
             => ~match_pattern(file_path, files[i].pattern)

\* both lookups returned the rule of the exact key, which stands after a
\* glob that matches the path too and carries another action
C30_Witness ==
    /\ file_config.kind = "returned"
    /\ file_action.kind = "returned"
    /\ Len(files) = 2
    /\ files[2].pattern = file_path
    /\ HasStar(files[1].pattern)
    /\ GlobMatches(file_path, files[1].pattern)
    /\ files[1].config = [action |-> "skip"]
    /\ file_config.value = [action |-> "merge_toml"]
    /\ file_action.value = "merge_toml"

-----------------------------------------------------------------------------
(* C31 *)

\* the run uses the manifest built from {'version': 'unknown'}
NoManifestFile == manifest = DefaultManifest

\* only the snapshot and file-sync had their body executed
OnlySnapshotAndFileSync ==
    \A i \in 1..Len(trace) : trace[i].stage \in {"snapshot", "filesync"}

\* with an empty files mapping every path resolves to replace
EveryFileReplaced ==
    \A p \in Paths :
        /\ get_file_action(<<>>, p) = "replace"
        /\ get_file_config(<<>>, p) = [action |-> "replace"]

\* C31, as stated: without update-manifest.yaml no gate, check, hook,
\* migration, test, cleanup or notification has any effect, a snapshot is
\* taken, every source file is processed with action replace, and the run
\* ends in SUCCESS.
C31_AsStated ==
    (Finished /\ NoManifestFile) =>
        /\ OnlySnapshotAndFileSync
        /\ scriptsRun = 0 /\ notified = <<>>
        /\ snapshot
        /\ EveryFileReplaced
        /\ IsSUCCESS

\* C31, amended: without update-manifest.yaml no gate, check, hook,
\* migration, test, cleanup or notification has any effect, the snapshot is
\* attempted in every run and every source file resolves to action replace;
\* the run ends in SUCCESS when the snapshot was created and every file was
\* processed, and FAILED otherwise: with the handler's failure when
\* create_backup raises, and with a restore invoked when a file fails.
C31_NoManifestDefaults ==
    NoManifestFile =>
        /\ OnlySnapshotAndFileSync
        /\ scriptsRun = 0 /\ notified = <<>>
        /\ pc \in {"migrations", "filesync", "posthooks", "posttests",
                   "cleanup", "notify"} => snapshot
        /\ EveryFileReplaced
        /\ Finished =>
              /\ Times("snapshot") = 1
              /\ IF Ended("snapshot", "ok") /\ Ended("filesync", "ok")
                 THEN IsSUCCESS /\ restoreCalls = 0
                 ELSE IsFAILED
              /\ Ended("snapshot", "raise")
                    => result = Returned(FALSE, "Update failed")
              /\ Ended("filesync", "fail")
                    => RestoreOutcome({"File processing failed"})

\* a run without manifest took the snapshot, processed every file of the
\* source tree and ended in SUCCESS
C31_Witness ==
    /\ Finished
    /\ NoManifestFile
    /\ Ended("snapshot", "ok")
    /\ filesWritten = MaxFiles
    /\ IsSUCCESS

-----------------------------------------------------------------------------
(* C32 *)

StageReturned == stage_ret.kind = "returned"

\* C32: every wait on an external process ends: each command the pipeline
\* waits on is bounded by an explicit timeout, so a command that never exits
\* cannot keep the stage from returning.
C32_EveryWaitEnds == <>StageReturned

-----------------------------------------------------------------------------
(* C33 *)

\* the positions of the log where the caller saw `outcome`
Saw(outcome) ==
    {k \in 1..Len(attempts_log) : attempts_log[k].outcome = outcome}

\* the attempt at position k of the log was the last one made for its task
LastAttemptOfTask(k) ==
    \A n \in 1..Len(attempts_log) :
        attempts_log[n].task = attempts_log[k].task => n <= k

\* C33: a hook, migration script or test that exceeds its timeout is handled
\* exactly like one that exits non-zero: the hook or script loop stops there
\* and the stage fails under its own policy (a pre-hook ends the run before
\* the snapshot, a migration script triggers the restore, a post-hook triggers
\* it only when service_start_fail is listed), and a timed-out test attempt
\* counts as a failed attempt: the next attempt follows while attempts are
\* left, and the test fails when it was the last one.
C33_TimeoutIsFailure ==
    \A outcome \in {"nonzero", "timeout"} :
      \A k \in Saw(outcome) :
        /\ stage_call.site \in {"pre_hook", "post_hook", "migration"}
              => /\ k = Len(attempts_log)
                 /\ StageReturned
                 /\ ~stage_ret.ok
                 /\ stage_ret.effect =
                       IF stage_call.site = "pre_hook" THEN "return_failed"
                       ELSE IF stage_call.site = "migration" THEN "restore"
                       ELSE IF stage_call.listed THEN "restore"
                       ELSE "continue"
        /\ stage_call.site = "test"
              => LET i == attempts_log[k].task
                     a == attempts_log[k].attempt
                 IN /\ (a < stage_call.tasks[i].retry_count
                        /\ k < Len(attempts_log))
                          => attempts_log[k + 1] \in
                                {Attempt(i, a + 1, o) :
                                    o \in {"exit0", "nonzero", "timeout"}}
                    /\ (a = stage_call.tasks[i].retry_count /\ running = 0)
                          => i \in failed_tests
                    /\ (StageReturned /\ i \in failed_tests) => ~stage_ret.ok

\* a post-update hook ran into its timeout with service_start_fail listed:
\* the stage failed and the restore is due
C33_Witness ==
    /\ StageReturned
    /\ stage_call.site = "post_hook"
    /\ stage_call.listed
    /\ Saw("timeout") # {}
    /\ ~stage_ret.ok
    /\ stage_ret.effect = "restore"

-----------------------------------------------------------------------------
(* C34 *)

\* the positions of the log that hold an attempt of test i
AttemptsOf(i) == {k \in 1..Len(attempts_log) : attempts_log[k].task = i}

\* some attempt of test i exited with status 0
Passed(i) ==
    \E k \in AttemptsOf(i) : attempts_log[k].outcome = "exit0"

\* C34: each test makes at most retry_count attempts, one after another and
\* never two at once, none after its first successful attempt, and passes if
\* and only if some attempt exits with status 0; the stage succeeds if and
\* only if every test of the list passes.
C34_BoundedSequentialRetries ==
    stage_call.site = "test" =>
        /\ running \in {0, 1}
        /\ \A i \in 1..Len(stage_call.tasks) :
              /\ Cardinality(AttemptsOf(i)) <= stage_call.tasks[i].retry_count
              /\ \A k \in AttemptsOf(i) :
                    /\ attempts_log[k].attempt =
                          Cardinality({n \in AttemptsOf(i) : n <= k})
                    /\ attempts_log[k].outcome = "exit0"
                          => LastAttemptOfTask(k)
              /\ StageReturned => (Passed(i) <=> i \notin failed_tests)
        /\ StageReturned
              => (stage_ret.ok <=>
                     \A i \in 1..Len(stage_call.tasks) : Passed(i))

\* a test with two attempts failed its first attempt, passed the second and
\* the stage succeeded
C34_Witness ==
    /\ StageReturned
    /\ stage_call.site = "test"
    /\ Len(stage_call.tasks) >= 1
    /\ stage_call.tasks[1].retry_count = 2
    /\ Len(attempts_log) >= 2
    /\ attempts_log[1] = Attempt(1, 1, "nonzero")
    /\ attempts_log[2] = Attempt(1, 2, "exit0")
    /\ stage_ret.ok

-----------------------------------------------------------------------------
(* C35 *)

\* C35: a file with action merge_json is merged with the same result as a
\* merge_toml file holding the same old and new mappings under the same
\* strategy: update_only keeps the deployed values and only adds new keys,
\* preserve_user merges nested mappings recursively.
C35_JsonMergesLikeToml ==
    (FileMerged /\ merge_call.via = "merge_json")
    => /\ target_file.doc =
             merge_toml_basic(merge_call.old_config, source_file.doc,
                              RuleStrategy(merge_call.rule_strategy))
       /\ merge_call.rule_strategy = "update_only"
             => \A k \in DOMAIN merge_call.old_config :
                   /\ k \in DOMAIN target_file.doc
                   /\ \A l \in DOMAIN merge_call.old_config[k].d :
                         /\ l \in DOMAIN target_file.doc[k].d
                         /\ target_file.doc[k].d[l] =
                               merge_call.old_config[k].d[l]

-----------------------------------------------------------------------------
(* C36 *)

-----------------------------------------------------------------------------
(* C38 *)

\* C38: processing a source file whose action is skip leaves the installation
\* tree as it was: the target is neither created nor modified and no
\* directory is created for it.
C38_SkipLeavesTree ==
    [][(last_step'.kind = "file" /\ last_step'.action = "skip")
          => tree' = tree]_vars

-----------------------------------------------------------------------------
(* C37 *)

\* the post-update hooks failed and the policy does not list
\* service_start_fail; the run is past the post-update tests stage
HooksFailedUngated ==
    /\ Ended("posthooks", "fail")
    /\ "service_start_fail" \notin manifest.auto_rollback_on
    /\ pc # "posttests"

TestsFailedGated ==
    /\ Ended("posttests", "fail")
    /\ "health_check_fail" \in manifest.auto_rollback_on

\* C37, as stated: when post-update hooks fail and service_start_fail is not
\* in auto_rollback_on the pipeline does not stop: the declared post-update
\* tests are still executed afterwards, and a test failure in that run with
\* health_check_fail enabled still restores the snapshot.
C37_AsStated ==
    HooksFailedUngated =>
        /\ manifest.post_update_tests => Did("posttests")
        /\ (Finished /\ TestsFailedGated) => restored

\* C37, amended: when post-update hooks fail and service_start_fail is not in
\* auto_rollback_on the pipeline does not stop and invokes no restore for
\* that failure: the declared post-update tests are still executed
\* afterwards, and a test failure in that run with health_check_fail enabled
\* invokes restore_backup exactly once; the snapshot is restored and the
\* rolled-back failure returned unless restore_backup itself raises, in
\* which case the run returns the handler's FAILED outcome with the snapshot
\* not restored.
C37_TestsStillRunAndRollBack ==
    HooksFailedUngated =>
        /\ manifest.post_update_tests => Did("posttests")
        /\ restoreCalls > 0 => TestsFailedGated
        /\ TestsFailedGated =>
              RestoreOutcome({"Health checks failed, rolled back"})

\* C37 witness: the hooks failed without service_start_fail listed, the tests
\* ran and failed with health_check_fail listed, and the restore completed.
C37_Witness ==
    /\ Finished
    /\ HooksFailedUngated
    /\ TestsFailedGated
    /\ Times("posttests") = 1
    /\ restored
    /\ result = Returned(FALSE, "Health checks failed, rolled back")

-----------------------------------------------------------------------------
(* C39 *)

\* the string holds the text current_version and starts with neither
\* file_exists( nor service_running(
VersionTextFirst ==
    /\ cond_text.mentions_version
    /\ cond_text.prefix \notin {"file_exists(", "service_running("}

\* C39: the dispatch has the fixed precedence file_exists(,
\* service_running(, contains current_version, env_var(, command(: a
\* condition string that contains current_version anywhere and starts with
\* neither file_exists( nor service_running( is evaluated as a version
\* comparison even when it starts with env_var( or command(, and the command
\* of such a command(...) condition is never executed.
C39_DispatchPrecedence ==
    /\ branch # "none" =>
          /\ cond_text.prefix = "file_exists(" => branch = "file_exists"
          /\ cond_text.prefix = "service_running(" =>
                branch = "service_running"
          /\ VersionTextFirst => branch = "current_version"
          /\ (~cond_text.mentions_version /\ cond_text.prefix = "env_var(")
                => branch = "env_var"
          /\ (~cond_text.mentions_version /\ cond_text.prefix = "command(")
                => branch = "command"
    /\ VersionTextFirst =>
          /\ "subprocess.run" \notin calls
          /\ "_evaluate_env_condition" \notin calls
          /\ disp_ret # NotReturned =>
                calls = {"_evaluate_version_condition"}

\* C39 witness: a command(...) condition that mentions current_version
\* returned from the version comparison with no command run.
C39_Witness ==
    /\ cond_text.prefix = "command("
    /\ cond_text.mentions_version
    /\ cond_text.arg = "quoted"
    /\ branch = "current_version"
    /\ disp_ret = DispReturn(TRUE)
    /\ calls = {"_evaluate_version_condition"}

-----------------------------------------------------------------------------
(* C40 *)

\* the call took stage k as the matching one
StageMatched(k) ==
    /\ decision.reason \in {"updating", "waiting"}
    /\ decision.examined = k

\* the call looked at stage k and went on to what follows it
StagePassedOver(k) ==
    /\ k <= decision.examined
    /\ ~StageMatched(k)

\* the criteria mentions server_id and evaluates to true for the hash value
CriteriaHolds(stage, h) ==
    /\ MentionsServerId(stage.criteria)
    /\ ~EvalRaises(stage.criteria)
    /\ EvalCriteria(stage.criteria, h)

\* C40: for a stage with a non-empty criteria the percentage is ignored: the
\* stage matches if and only if the criteria mentions server_id and
\* evaluates to true with server_id replaced by the hash value mod 100; a
\* criteria without server_id, or whose evaluation fails, never matches, and
\* the host falls through to the next stage.
C40_CriteriaDecidesAlone ==
    (decision # NotDecided /\ rollout_config.strategy = "staged") =>
        \A k \in 1..Len(rollout_config.stages) :
            LET stage == rollout_config.stages[k]
            IN stage.criteria # "" =>
                  /\ StageMatched(k) => CriteriaHolds(stage, decision.h)
                  /\ StagePassedOver(k) => ~CriteriaHolds(stage, decision.h)
                  /\ (StagePassedOver(k) /\ k < Len(rollout_config.stages))
                        => decision.examined > k

\* C40 witness: a host with h = 10 fell through a stage of percentage 100
\* whose criteria does not mention server_id and matched a stage of
\* percentage 10 through its criteria.
C40_Witness ==
    /\ decision # NotDecided
    /\ rollout_config.strategy = "staged"
    /\ Len(rollout_config.stages) = 2
    /\ rollout_config.stages[1].criteria = "region == 'eu'"
    /\ rollout_config.stages[1].percentage = 100
    /\ rollout_config.stages[2].criteria = "server_id < 50"
    /\ rollout_config.stages[2].percentage = 10
    /\ decision.h = 10
    /\ StageMatched(2)
    /\ decision.ok
====
